---- MODULE Spec2Model ----
(***************************************************************************)
(* Binance live-price streamer: the ingestion pipeline as a state machine. *)
(*                                                                         *)
(*   WebSocketManager  (src/src/streams/manager.py)   mgr_*, frame, ...    *)
(*   MessageHandler    (src/src/streams/handlers.py)  cal_*, ...           *)
(*   CallbackManager   (src/src/core/callbacks.py)    cb_*, invoked        *)
(*   ParquetStore      (src/src/storage/parquet_store.py)  buffers, ...    *)
(*                                                                         *)
(*   OrderBookPoller   (src/src/streams/order_book_poller.py)  poll_*      *)
(*                                                                         *)
(* asyncio tasks are modelled by a program counter each; one action is the *)
(* code a task runs between two suspension points (await). The counters    *)
(* _msg_count and _poll_count feed log lines only and are left out.        *)
(***************************************************************************)
EXTENDS Integers, Sequences, FiniteSets, TLC

VARIABLES
    \* WebSocketManager
    mgr_pc,            \* where the task running start() is suspended
    mgr_running,       \* self._running
    ws,                \* self._ws: "none", "open", or "closed" (a stale reference)
    reconnect_count,   \* self._reconnect_count
    max_attempts,      \* settings.connection.reconnect_max_attempts
    frame,             \* the frame last returned by ws.recv()
    conn_loss,         \* history: the connection loss not yet followed by a backoff sleep
    \* MessageHandler
    cal_samples,       \* self._calibration_samples
    calibrated,        \* self._calibrated
    clock_offset,      \* self._clock_offset_ms: <<>> is None, <<v>> is v
    seen,              \* history: timestamped events observed since the last reset()
    parsed,            \* history: the last parse call, its inputs and its result
    \* CallbackManager._dispatch, as run by the manager task
    event,             \* the event being dispatched (NoEvent when none yet)
    cb_idx,            \* index of the next callback of the for loop
    invoked,           \* history: callbacks invoked for `event`, in order
    cb_failed,         \* history: indexes of the callbacks that raised for `event`
    \* ParquetStore
    storage_enabled,   \* settings.storage.enabled: the store exists and is registered
    store_running,     \* self._running
    buffers,           \* self._buffers
    last_flush,        \* self._last_flush
    inflight,          \* per calling task: the _flush call suspended in to_thread
    written,           \* the batches pq.write_table wrote, in completion order
    flush_pc,          \* where periodic_flush_loop is suspended
    flush_idx,         \* position of its for loop over the stream types
    mono,              \* time.monotonic()
    next_id,           \* history: identity of the next record appended
    failures,          \* history: number of failed writes so far
    \* OrderBookPoller
    poll_pc,           \* where the task running start() is suspended
    poll_running,      \* self._running
    session,           \* self._session: "none", "open" or "closed"
    poll_idx,          \* CallbackManager._dispatch run by the poller: next callback
    poll_invoked,      \* history: callbacks invoked for the current snapshot
    poll_failed,       \* history: indexes of the callbacks that raised for it
    poll_last,         \* history: how the last GET ended, or "cancelled" ("none" at first)
    \* WebSocketManager._backoff_delay called directly
    backoff,           \* the last call: its inputs and what it returned or raised
    \* _run (main.py) and callers of stop(), flush_all() and close()
    sup_pc,            \* where _run, or the caller of the store, is suspended
    sup_idx,           \* flush_all's for loop: position of the type being flushed
    sup_fail0,         \* history: failed writes when flush_all/close was entered
    shutdown,          \* history: why gather ended: "none", "cancel", "finished"
    poller_enabled,    \* settings.streams.order_book_snapshot.enabled: _run's poller exists
    stop_called,       \* history: WebSocketManager.stop() has been called
    \* the frames of the current connection, when they are numbered
    wire,              \* history: frames ws.recv() returned so far (-1: not numbered)
    received,          \* history: per frame, the channel it went to, or "dropped"
    delivered,         \* history: the handler invocations, in the order they began
    \* ParquetStore._sync_write
    now_s,             \* datetime.now(tz=utc), in whole seconds
    files,             \* the files under base_dir: [type, sec, recs], one per path
    \* calls made directly, outside the running application
    rate,              \* OrderBookPoller.start(): its settings and what startup did
    agg,               \* parse_agg_trade: the payload's trade ids and the event built
    depth              \* parse_depth_update: the wire ladders and the event built

mgr_vars == <<mgr_pc, mgr_running, ws, reconnect_count, max_attempts, frame, conn_loss>>
val_vars == <<cal_samples, calibrated, clock_offset, seen, parsed>>
cb_vars == <<event, cb_idx, invoked, cb_failed>>
store_vars == <<storage_enabled, store_running, buffers, last_flush, inflight, written, flush_pc, flush_idx, mono, next_id, failures>>
poll_vars == <<poll_pc, poll_running, session, poll_idx, poll_invoked, poll_failed, poll_last>>
bk_vars == <<backoff>>
sup_vars == <<sup_pc, sup_idx, sup_fail0, shutdown, poller_enabled, stop_called>>
ord_vars == <<wire, received, delivered>>
file_vars == <<now_s, files>>
pure_vars == <<rate, agg, depth>>
vars == <<mgr_vars, val_vars, cb_vars, store_vars, poll_vars, bk_vars, sup_vars, ord_vars, file_vars, pure_vars>>

----------------------------------------------------------------------------
(* Bounds of the model. *)

\* seconds of wall-clock time that pass in one behaviour
MaxSecond == 1

\* frames numbered on one connection
MaxFrames == 3

\* the longest poll interval, in seconds
MaxInterval == 12

\* the largest trade id of an aggregated trade
MaxTradeId == 7

\* levels of one ladder of a depth delta
MaxLevels == 2

\* decimal places of the prices and quantities on the wire
MaxDecimals == 2

\* records appended to the store in one behaviour
MaxRecords == 3
\* failed writes in one behaviour
MaxFailures == 2
\* ticks of the monotonic clock
MaxTime == 2
\* largest reconnect ceiling tried (0 = unbounded is always tried)
MaxCeiling == 2
\* cap of the reconnect counter when the ceiling is 0
MaxCount == 3
\* local wall clock readings and event times (ms) offered to the validator
MaxNowMs == 2
MaxEventTime == 2
\* largest attempt count _backoff_delay is called with
MaxAttempt == 1026

(* Configuration (src/src/core/config.py), scaled down. *)

\* StorageConfig.buffer_max
buffer_max == 2
\* StorageConfig.rotation_minutes * 60, in clock ticks
flush_interval == 2
\* ConnectionConfig.stale_threshold_ms
stale_threshold_ms == 1
\* ConnectionConfig.reconnect_delay_base, in tenths of a second
reconnect_delay_base == 10

----------------------------------------------------------------------------
(* Strings as sequences of characters, with the str methods the code uses. *)

\* Index of the first "@" of s at or after i, 0 when there is none.
RECURSIVE FindAt(_, _)
FindAt(s, i) ==
    IF i > Len(s) THEN 0
    ELSE IF s[i] = "@" THEN i
    ELSE FindAt(s, i + 1)

\* s.split("@", 1)
Split1(s) ==
    LET k == FindAt(s, 1) IN
    IF k = 0 THEN <<s>>
    ELSE <<SubSeq(s, 1, k - 1), SubSeq(s, k + 1, Len(s))>>

\* s.startswith(p)
StartsWith(s, p) == Len(s) >= Len(p) /\ SubSeq(s, 1, Len(p)) = p

\* s[5:6].isdigit()
DigitAt5(s) == Len(s) >= 6 /\ s[6] \in {"0", "1", "2", "3", "4", "5", "6", "7", "8", "9"}

S_trade == <<"t", "r", "a", "d", "e">>
S_aggTrade == <<"a", "g", "g", "T", "r", "a", "d", "e">>
S_kline_ == <<"k", "l", "i", "n", "e", "_">>
S_bookTicker == <<"b", "o", "o", "k", "T", "i", "c", "k", "e", "r">>
S_depth == <<"d", "e", "p", "t", "h">>
S_sym == <<"b", "t", "c">>
S_at == <<"@">>

----------------------------------------------------------------------------
(* Frames: what ws.recv() can return, by the properties the code tests.    *)
(*   json     msgspec.json.decode succeeds                                 *)
(*   obj      the decoded wrapper is a dict                                *)
(*   stream   wrapper.get("stream", ""): a str (chars) or another JSON     *)
(*            value, of which only the truth value matters                 *)
(*   data     wrapper.get("data") is a dict                                *)
(*   payload  hasE: "E" in data; numE: data["E"] is a number; E: its value;*)
(*            ok: <Model>.from_raw(data) raises nothing                    *)

Str(chars) == [str |-> TRUE, truthy |-> chars # <<>>, chars |-> chars]
NonStr(truthy) == [str |-> FALSE, truthy |-> truthy, chars |-> <<>>]
Payload(hasE, numE, E, ok) == [hasE |-> hasE, numE |-> numE, E |-> E, ok |-> ok]
NoPayload == Payload(FALSE, FALSE, 0, FALSE)
Frame(json, obj, stream, data, payload) ==
    [json |-> json, obj |-> obj, stream |-> stream, data |-> data, payload |-> payload]
NoFrame == Frame(FALSE, FALSE, NonStr(FALSE), FALSE, NoPayload)

StreamName(suffix) == Str(S_sym \o S_at \o suffix)
Envelope(suffix, payload) == Frame(TRUE, TRUE, StreamName(suffix), TRUE, payload)

\* The stream suffixes of _build_url, and some the server never sends.
Suffix_trade == S_trade
Suffix_aggTrade == S_aggTrade
Suffix_kline == S_kline_ \o <<"1", "m">>
Suffix_bookTicker == S_bookTicker
Suffix_depthSnap == S_depth \o <<"5", "@", "1", "0", "0", "m", "s">>
Suffix_depthUpd == S_depth \o <<"@", "1", "0", "0", "m", "s">>
Suffix_unknown == <<"f", "o", "o">>

\* Frames that are malformed above the payload: _handle_message or _dispatch
\* is to drop each of them.
F_bad_json == Frame(FALSE, FALSE, NonStr(FALSE), FALSE, NoPayload)
F_not_object == Frame(TRUE, FALSE, NonStr(FALSE), FALSE, NoPayload)
F_no_stream == Frame(TRUE, TRUE, Str(<<>>), TRUE, NoPayload)
F_stream_null == Frame(TRUE, TRUE, NonStr(FALSE), TRUE, NoPayload)
F_stream_number == Frame(TRUE, TRUE, NonStr(TRUE), TRUE, NoPayload)
F_data_not_dict == Frame(TRUE, TRUE, StreamName(Suffix_trade), FALSE, NoPayload)
F_no_at == Frame(TRUE, TRUE, Str(S_sym), TRUE, Payload(TRUE, TRUE, 0, TRUE))
F_unknown_suffix == Envelope(Suffix_unknown, Payload(TRUE, TRUE, 0, TRUE))

EnvelopeMalformed ==
    {F_bad_json, F_not_object, F_no_stream, F_stream_null, F_stream_number,
     F_data_not_dict, F_no_at, F_unknown_suffix}

\* Payloads failing field-level parsing: no "E", a non-numeric "E", a bad field.
PayloadMalformed(E) ==
    {Envelope(Suffix_trade, Payload(FALSE, FALSE, 0, TRUE)),
     Envelope(Suffix_aggTrade, Payload(TRUE, FALSE, 0, TRUE)),
     Envelope(Suffix_trade, Payload(TRUE, TRUE, E, FALSE)),
     Envelope(Suffix_bookTicker, Payload(FALSE, FALSE, 0, FALSE))}

TimestampedSuffixes == {Suffix_trade, Suffix_aggTrade, Suffix_kline, Suffix_depthUpd}
UntimedSuffixes == {Suffix_bookTicker, Suffix_depthSnap}

\* Well-formed envelopes with event times from Es.
WellFormed(suffixes, Es) ==
    {Envelope(sfx, Payload(TRUE, TRUE, E, TRUE)) : sfx \in suffixes \cap TimestampedSuffixes, E \in Es}
    \cup {Envelope(sfx, Payload(FALSE, FALSE, 0, TRUE)) : sfx \in suffixes \cap UntimedSuffixes}

----------------------------------------------------------------------------
(* MessageHandler (handlers.py). *)

\* len(self._calibration_samples) >= 5
CalibrationSize == 5
\* self._calibration_samples[2], 0-based
MedianIndex == 3

\* list.sort(): insertion of x into the sorted sequence s
RECURSIVE Insert(_, _)
Insert(s, x) ==
    IF s = <<>> THEN <<x>>
    ELSE IF x <= Head(s) THEN <<x>> \o s
    ELSE <<Head(s)>> \o Insert(Tail(s), x)

RECURSIVE ListSort(_)
ListSort(s) == IF s = <<>> THEN <<>> ELSE Insert(ListSort(Tail(s)), Head(s))

ValState(samples, cal, offset) == [samples |-> samples, calibrated |-> cal, offset |-> offset]

\* MessageHandler.reset / __init__
ResetState == ValState(<<>>, FALSE, <<>>)

\* A _calibrate that takes the middle sample without sorting first.
CalibrateUnsorted(st, sample) ==
    LET appended == Append(st.samples, sample) IN
    IF Len(appended) >= CalibrationSize
    THEN ValState(appended, TRUE, <<appended[MedianIndex]>>)
    ELSE ValState(appended, st.calibrated, st.offset)

\* MessageHandler._calibrate with sample = _now_ms() - event_time_ms
Calibrate(st, sample) ==
    LET appended == Append(st.samples, sample) IN
    IF Len(appended) >= CalibrationSize
    THEN LET sorted == ListSort(appended) IN ValState(sorted, TRUE, <<sorted[MedianIndex]>>)
    ELSE ValState(appended, st.calibrated, st.offset)

\* A comparison that also rejects an event exactly at the threshold.
TooOldAtThreshold(adjusted_age) == adjusted_age >= stale_threshold_ms

\* adjusted_age > self._stale_threshold_ms
TooOld(adjusted_age) == adjusted_age > stale_threshold_ms

\* An _is_stale that lacks the early "return False" of the calibration branch
\* and goes on to compare the raw age (offset None read as 0).
IsStaleWhileCalibrating(st, event_time, now_ms) ==
    IF ~st.calibrated
    THEN [stale |-> TooOld(now_ms - event_time), st |-> Calibrate(st, now_ms - event_time)]
    ELSE [stale |-> TooOld((now_ms - event_time) - st.offset[1]), st |-> st]

\* An _is_stale that goes on sampling after the calibration is complete
IsStaleSamplingOn(st, event_time, now_ms) ==
    IF ~st.calibrated
    THEN [stale |-> FALSE, st |-> Calibrate(st, now_ms - event_time)]
    ELSE [stale |-> TooOld((now_ms - event_time) - st.offset[1]),
          st |-> Calibrate(st, now_ms - event_time)]

\* MessageHandler._is_stale: [stale, st] the result and the state it leaves
IsStale(st, event_time, now_ms) ==
    IF ~st.calibrated
    THEN [stale |-> FALSE, st |-> Calibrate(st, now_ms - event_time)]
    ELSE [stale |-> TooOld((now_ms - event_time) - st.offset[1]), st |-> st]

\* A parse that builds the event from its fields before it looks at the
\* event time
ParseFieldsFirst(st, p, now_ms) ==
    IF ~p.hasE \/ ~p.numE \/ ~p.ok THEN [res |-> "parse_error", st |-> st]
    ELSE LET r == IsStale(st, p.E, now_ms) IN
         [res |-> IF r.stale THEN "stale" ELSE "ok", st |-> r.st]

\* parse_trade / parse_agg_trade / parse_kline / parse_depth_update:
\* res is "ok" (an event is returned), "stale" or "parse_error" (None is).
ParseTimestamped(st, p, now_ms) ==
    IF ~p.hasE THEN [res |-> "parse_error", st |-> st]            \* KeyError
    ELSE IF ~p.numE THEN [res |-> "parse_error", st |-> st]       \* TypeError
    ELSE LET r == IsStale(st, p.E, now_ms) IN
         IF r.stale THEN [res |-> "stale", st |-> r.st]
         ELSE IF ~p.ok THEN [res |-> "parse_error", st |-> r.st]  \* from_raw raises
         ELSE [res |-> "ok", st |-> r.st]

\* parse_book_ticker / parse_depth_snapshot: no event time, no staleness check
ParseUntimed(st, p) ==
    [res |-> IF p.ok THEN "ok" ELSE "parse_error", st |-> st]

----------------------------------------------------------------------------
(* WebSocketManager._handle_message and ._dispatch (manager.py), up to the *)
(* call of CallbackManager.dispatch_<channel>.                             *)

\* _handle_message passes the wrapper on to self._dispatch
Accepted(f) == f.json /\ f.obj /\ f.stream.truthy /\ f.data

\* _dispatch: the branch taken for stream_name. "raise": stream_name.split
\* raises AttributeError, which no except clause of the read loop catches.
Route(stream) ==
    IF ~stream.str THEN "raise"
    ELSE LET parts == Split1(stream.chars) IN
         IF Len(parts) # 2 THEN "drop"
         ELSE LET stream_type == parts[2] IN
              IF stream_type = S_trade THEN "trade"
              ELSE IF stream_type = S_aggTrade THEN "agg_trade"
              ELSE IF StartsWith(stream_type, S_kline_) THEN "kline"
              ELSE IF stream_type = S_bookTicker THEN "book_ticker"
              ELSE IF StartsWith(stream_type, S_depth) /\ DigitAt5(stream_type) THEN "depth_snapshot"
              ELSE IF StartsWith(stream_type, S_depth) THEN "depth_update"
              ELSE "drop"

TimestampedChannels == {"trade", "agg_trade", "kline", "depth_update"}
UntimedChannels == {"book_ticker", "depth_snapshot"}

\* What the validator did with the last frame (history).
NoParse == [res |-> "none", age |-> 0, cal |-> FALSE, seen |-> 0, wf |-> FALSE]
ParseRecord(st, n, p, now_ms, res) ==
    [res |-> res,
     age |-> IF p.hasE /\ p.numE
             THEN (now_ms - p.E) - (IF st.calibrated THEN st.offset[1] ELSE 0)
             ELSE 0,
     cal |-> st.calibrated,
     seen |-> n,
     wf |-> p.hasE /\ p.numE /\ p.ok]

\* cap of the history counter `seen`
SeenCap == 6

\* _handle_message(raw): [out, ch, st, parsed, seen] where out is "drop" (logged
\* and dropped), "raise" (an exception leaves _handle_message) or "dispatch"
\* (dispatch_<ch> is called with the parsed event).
HandleMessage(f, st, n, now_ms) ==
    LET same == [out |-> "drop", ch |-> "none", st |-> st, parsed |-> NoParse, seen |-> n]
        ch == Route(f.stream)
    IN  IF ~Accepted(f) THEN same
        ELSE IF ch = "drop" THEN same
        ELSE IF ch = "raise" THEN [same EXCEPT !.out = "raise"]
        ELSE IF ch \in TimestampedChannels
        THEN LET r == ParseTimestamped(st, f.payload, now_ms) IN
             [out |-> IF r.res = "ok" THEN "dispatch" ELSE "drop",
              ch |-> ch,
              st |-> r.st,
              parsed |-> ParseRecord(st, n, f.payload, now_ms, r.res),
              seen |-> IF f.payload.hasE /\ f.payload.numE /\ n < SeenCap THEN n + 1 ELSE n]
        ELSE LET r == ParseUntimed(st, f.payload) IN
             [out |-> IF r.res = "ok" THEN "dispatch" ELSE "drop",
              ch |-> ch, st |-> r.st, parsed |-> NoParse, seen |-> n]

----------------------------------------------------------------------------
(* CallbackManager (callbacks.py) as wired by _run (main.py).              *)

\* The keys of ParquetStore._buffers, in insertion order
StoreTypes == <<"trade", "agg_trade", "kline">>
StoreTypeSet == {StoreTypes[i] : i \in 1..Len(StoreTypes)}

\* The callback list of a channel after _run's registrations: the console
\* printer first, then the store's sink when storage is enabled.
Callbacks(ch, storage) ==
    IF storage /\ ch \in StoreTypeSet THEN <<"print", "store">> ELSE <<"print">>

NoEvent == [ch |-> "none", id |-> 0]

\* A for loop that is left when a callback raises: with at most two callbacks
\* per channel, position i + 2 is past the end of the list.
BreakOnCallbackError(i) == i + 2

\* A for loop that passes over the callback after the one that returned
SkipAfterReturn(i) == i + 2

\* _dispatch's for loop after callback i returned: callback i + 1 is next
AfterCallbackReturn(i) == i + 1

\* _dispatch's for loop after callback i raised an Exception: it is logged
\* and the loop goes on with callback i + 1.
AfterCallbackError(i) == i + 1

----------------------------------------------------------------------------
(* ParquetStore (parquet_store.py). *)

\* The tasks that call _flush: the manager (through store_<type> and
\* _maybe_flush), the periodic loop, and _run or whoever calls flush_all()
\* and close()
Callers == {"mgr", "periodic", "sup"}
NoWrite == [type |-> "none", recs |-> <<>>, status |-> "idle"]

\* A _maybe_flush that knows the size trigger only
SizeTriggerOnly(bufs, lf, t, now) == Len(bufs[t]) >= buffer_max

\* A size trigger that waits for the buffer to exceed buffer_max
SizeTriggerLate(bufs, lf, t, now) ==
    Len(bufs[t]) > buffer_max \/ (now - lf[t]) >= flush_interval

\* _maybe_flush: size_trigger or time_trigger
ShouldFlush(bufs, lf, t, now) ==
    Len(bufs[t]) >= buffer_max \/ (now - lf[t]) >= flush_interval

\* A swap that hands over the buffer but for the record appended last
SwappedWithoutLast(bufs, t) ==
    [type |-> t, recs |-> SubSeq(bufs[t], 1, Len(bufs[t]) - 1), status |-> "running"]

\* _flush, lines 98-100: the records handed to the writer
Swapped(bufs, t) == [type |-> t, recs |-> bufs[t], status |-> "running"]

\* A failure branch that only logs and does not put the records back.
RequeueForgotten(bufs, w) == bufs

\* A failure branch that puts the records back behind the newer ones
RequeuedBehind(bufs, w) == [bufs EXCEPT ![w.type] = @ \o w.recs]

\* _flush, line 107: the buffer after a failed write of w
Requeued(bufs, w) == [bufs EXCEPT ![w.type] = w.recs \o @]

\* A _flush that puts the records back whether the write failed or not
RequeueAlways(bufs, w) == Requeued(bufs, w)

\* _flush after to_thread returned or raised: the buffers the caller leaves
AfterWrite(bufs, w) == IF w.status = "failed" THEN Requeued(bufs, w) ELSE bufs

\* A periodic check that flushes a type only when its buffer is also full
RECURSIVE NextDueAndFull(_, _, _, _)
NextDueAndFull(bufs, lf, now, i) ==
    IF i > Len(StoreTypes) THEN 0
    ELSE IF /\ (now - lf[StoreTypes[i]]) >= flush_interval
            /\ Len(bufs[StoreTypes[i]]) >= buffer_max THEN i
    ELSE NextDueAndFull(bufs, lf, now, i + 1)

\* periodic_flush_loop's for loop: the first type at or after position i that
\* is due (rotation interval elapsed, buffer not empty), 0 when none is.
RECURSIVE NextDue(_, _, _, _)
NextDue(bufs, lf, now, i) ==
    IF i > Len(StoreTypes) THEN 0
    ELSE IF (now - lf[StoreTypes[i]]) >= flush_interval /\ bufs[StoreTypes[i]] # <<>> THEN i
    ELSE NextDue(bufs, lf, now, i + 1)

----------------------------------------------------------------------------
(* WebSocketManager._backoff_delay (manager.py): the computation, with     *)
(* delays in tenths of a second.                                           *)

\* sys.float_info.max_exp: 2 ** e is converted to a float, to be multiplied
\* by a float, for e < 1024 only; beyond, Python raises OverflowError
FloatMaxExp == 1024

\* ConnectionConfig.reconnect_delay_max: a cap the doubling hits exactly, and
\* one that lies less than 10% above a doubling
MaxDelays == {4 * reconnect_delay_base, 4 * reconnect_delay_base + 2}

\* reconnect_delay_base is annotated float and defaults to 1.0; a YAML file
\* giving an integer makes it an int (config.py line 147)
BaseKinds == {"float", "int"}

Min(a, b) == IF a <= b THEN a ELSE b

\* b * 2 ** e as far as min(., cap) needs it: the doubling stops once the
\* product has reached the cap
RECURSIVE ScaleCapped(_, _, _)
ScaleCapped(b, e, cap) ==
    IF e = 0 \/ b >= cap THEN b ELSE ScaleCapped(2 * b, e - 1, cap)

\* base * (2 ** (count - 1)) raises OverflowError (line 214)
PowerOverflows(count, kind) == kind = "float" /\ count - 1 >= FloatMaxExp

\* delay = min(base * 2 ** (count - 1), reconnect_delay_max), lines 213-216
NominalDelay(count, max_delay) ==
    Min(ScaleCapped(reconnect_delay_base, count - 1, max_delay), max_delay)

\* random.uniform(0, delay * 0.1), line 217, to the tenth of a second
JitterDraws(delay) == 0..(delay \div 10)

NoBackoff == [count |-> 0, kind |-> "float", max_delay |-> 0, raised |-> FALSE,
              jitter |-> 0, delay |-> 0]

\* _backoff_delay() with self._reconnect_count = count
BackoffDelay(count, kind, max_delay, jitter) ==
    IF PowerOverflows(count, kind)
    THEN [count |-> count, kind |-> kind, max_delay |-> max_delay, raised |-> TRUE,
          jitter |-> 0, delay |-> 0]
    ELSE [count |-> count, kind |-> kind, max_delay |-> max_delay, raised |-> FALSE,
          jitter |-> jitter, delay |-> NominalDelay(count, max_delay) + jitter]

----------------------------------------------------------------------------
(* OrderBookPoller.start(): the rate-limit usage computed before the loop *)
(* (order_book_poller.py, lines 29-32 and 56-66).                         *)

\* _LIMIT_WEIGHTS.get(self._limit, 50): the weight of a limit not in the table
DefaultWeight == 50

\* 60 / self._interval, line 57
SecondsPerMinute == 60

\* the value weight_per_min is compared with, line 59
WarnThreshold == 1000

\* the budget the warning reports, line 64 (and the module's docstring, line 12)
BudgetCeiling == 1200

\* _LIMIT_WEIGHTS, lines 29-32, read with .get(limit, 50)
LimitWeight(limit) ==
    CASE limit \in {5, 10, 20, 50, 100} -> 5
      [] limit = 500 -> 10
      [] limit = 1000 -> 20
      [] limit = 5000 -> 50
      [] OTHER -> DefaultWeight

\* settings.streams.order_book_snapshot.limit: the limits of the table and
\* one the table does not hold
Limits == {5, 10, 20, 50, 100, 500, 1000, 5000, 200}

\* settings.streams.order_book_snapshot.interval_seconds, in whole seconds
Intervals == 0..MaxInterval

\* weight_per_min > 1000 with weight_per_min = (60 / interval) * weight.
\* The quotient is a float, but for a whole number of seconds the product
\* is on the same side of 1000 as the exact value 60 * weight / interval.
HighUsage(limit, interval) ==
    SecondsPerMinute * LimitWeight(limit) > WarnThreshold * interval

NoRate == [limit |-> 0, interval |-> 0, raised |-> FALSE, warned |-> FALSE,
           started |-> FALSE]

\* start() up to its loop: 60 / 0 raises ZeroDivisionError out of start();
\* otherwise the warning is logged when the usage is high, and the loop begins
PollerStartup(limit, interval) ==
    IF interval = 0
    THEN [limit |-> limit, interval |-> interval, raised |-> TRUE,
          warned |-> FALSE, started |-> FALSE]
    ELSE [limit |-> limit, interval |-> interval, raised |-> FALSE,
          warned |-> HighUsage(limit, interval), started |-> TRUE]

----------------------------------------------------------------------------
(* AggTrade (models.py, lines 65-105) as built by parse_agg_trade. *)

\* d["f"] and d["l"] of a payload
TradeIds == 0..MaxTradeId

NoAgg == [called |-> FALSE, first |-> 0, last |-> 0, accepted |-> FALSE,
          num_trades |-> 0]

\* the num_trades property, line 86
NumTrades(first_trade_id, last_trade_id) == last_trade_id - first_trade_id + 1

\* parse_agg_trade (handlers.py, lines 82-95) on a payload that has every
\* key: it returns None for a stale event and AggTrade.from_raw(data)
\* otherwise; from_raw (lines 88-100) copies d["f"] and d["l"] unexamined
ParseAggTrade(f, l, stale) ==
    [called |-> TRUE, first |-> f, last |-> l, accepted |-> ~stale,
     num_trades |-> IF stale THEN 0 ELSE NumTrades(f, l)]

----------------------------------------------------------------------------
(* DepthUpdate.from_raw (models.py, lines 314-325) as called by *)
(* parse_depth_update. Prices and quantities are on the wire as decimal  *)
(* strings, here sequences of characters; a float is held in units of    *)
(* 10^-MaxDecimals.                                                       *)

DigitChars == <<"0", "1", "2", "3", "4", "5", "6", "7", "8", "9">>
IsDigit(c) == \E d \in 1..Len(DigitChars) : DigitChars[d] = c
DigitOf(c) == (CHOOSE d \in 1..Len(DigitChars) : DigitChars[d] = c) - 1

RECURSIVE IntOf(_)
IntOf(cs) ==
    IF cs = <<>> THEN 0
    ELSE IntOf(SubSeq(cs, 1, Len(cs) - 1)) * 10 + DigitOf(cs[Len(cs)])

RECURSIVE Pow10(_)
Pow10(n) == IF n = 0 THEN 1 ELSE 10 * Pow10(n - 1)

DotsOf(cs) == {i \in 1..Len(cs) : cs[i] = "."}

\* float(s) for a string of digits with at most one point: <<v>> is the
\* value, <<>> is ValueError (no digit, a second point, any other character)
FloatOf(cs) ==
    IF \/ \E i \in 1..Len(cs) : ~IsDigit(cs[i]) /\ cs[i] # "."
       \/ Cardinality(DotsOf(cs)) > 1
       \/ \A i \in 1..Len(cs) : ~IsDigit(cs[i])
    THEN <<>>
    ELSE LET dot == IF DotsOf(cs) = {} THEN Len(cs) + 1
                    ELSE CHOOSE i \in DotsOf(cs) : TRUE
             whole == SubSeq(cs, 1, dot - 1)
             frac == SubSeq(cs, dot + 1, Len(cs))
         IN  <<IntOf(whole) * Pow10(MaxDecimals)
                 + IntOf(frac) * Pow10(MaxDecimals - Len(frac))>>

\* the strings of the payloads: two prices, a quantity, a zero quantity as
\* Binance writes it for a level to remove, and a string float() rejects
Price_9_5 == <<"9", ".", "5">>
Price_10 == <<"1", "0">>
Qty_1_25 == <<"1", ".", "2", "5">>
Qty_zero == <<"0", ".", "0", "0">>
Qty_bad == <<"x">>

\* the entries of d["b"] and d["a"]: [price, quantity] pairs, and an entry
\* that is not a pair
WireLevels ==
    {<<p, q>> : p \in {Price_9_5, Price_10}, q \in {Qty_1_25, Qty_zero, Qty_bad}}
        \cup {<<Price_10>>}

RECURSIVE SeqsUpTo(_, _)
SeqsUpTo(S, n) ==
    IF n = 0 THEN {<<>>}
    ELSE LET shorter == SeqsUpTo(S, n - 1)
         IN  shorter \cup {Append(q, x) : q \in shorter, x \in S}

WireLadders == SeqsUpTo(WireLevels, MaxLevels)

\* `for p, q in ...` raises ValueError on an entry that is not a pair, and
\* float() on a string that is not a number
LevelParses(lv) == Len(lv) = 2 /\ FloatOf(lv[1]) # <<>> /\ FloatOf(lv[2]) # <<>>

LadderParses(ladder) == \A i \in 1..Len(ladder) : LevelParses(ladder[i])

\* [[float(p), float(q)] for p, q in ladder], lines 316-317
ParseLadder(ladder) ==
    [i \in 1..Len(ladder) |-> <<FloatOf(ladder[i][1])[1], FloatOf(ladder[i][2])[1]>>]

NoDepth == [called |-> FALSE, b |-> <<>>, a |-> <<>>, ok |-> FALSE,
            bids |-> <<>>, asks |-> <<>>]

\* a from_raw that leaves out the levels of quantity zero
FromRawWithoutEmpty(b, a) ==
    LET kept(ladder) == SelectSeq(ParseLadder(ladder), LAMBDA lv : lv[2] # 0)
    IN  [called |-> TRUE, b |-> b, a |-> a, ok |-> TRUE,
         bids |-> kept(b), asks |-> kept(a)]

\* DepthUpdate.from_raw on well-formed ladders
FromRaw(b, a) ==
    [called |-> TRUE, b |-> b, a |-> a, ok |-> TRUE,
     bids |-> ParseLadder(b), asks |-> ParseLadder(a)]

\* parse_depth_update (handlers.py, lines 127-139): None for a stale event
\* or when from_raw raised, the event otherwise
ParseDepthUpdate(b, a, stale) ==
    IF stale \/ ~LadderParses(b) \/ ~LadderParses(a)
    THEN [called |-> TRUE, b |-> b, a |-> a, ok |-> FALSE,
          bids |-> <<>>, asks |-> <<>>]
    ELSE FromRaw(b, a)

----------------------------------------------------------------------------
(* State after construction: _run has built the CallbackManager, the store *)
(* (when enabled) and the manager, and has created the tasks.              *)

InitAll(storage, poller, numbered) ==
    /\ rate = NoRate
    /\ agg = NoAgg
    /\ depth = NoDepth
    /\ now_s = 0
    /\ files = {}
    /\ wire = IF numbered THEN 0 ELSE -1
    /\ received = <<>>
    /\ delivered = <<>>
    /\ mgr_pc = "init"
    /\ mgr_running = FALSE
    /\ ws = "none"
    /\ reconnect_count = 0
    /\ frame = NoFrame
    /\ conn_loss = "none"
    /\ cal_samples = ResetState.samples
    /\ calibrated = ResetState.calibrated
    /\ clock_offset = ResetState.offset
    /\ seen = 0
    /\ parsed = NoParse
    /\ event = NoEvent
    /\ cb_idx = 1
    /\ invoked = <<>>
    /\ cb_failed = {}
    /\ storage_enabled = storage
    /\ store_running = TRUE
    /\ buffers = [t \in StoreTypeSet |-> <<>>]
    /\ last_flush = [t \in StoreTypeSet |-> 0]
    /\ inflight = [c \in Callers |-> NoWrite]
    /\ written = <<>>
    /\ flush_pc = "sleep"
    /\ flush_idx = 0
    /\ mono = 0
    /\ next_id = 1
    /\ failures = 0
    /\ poll_pc = "init"
    /\ poll_running = FALSE
    /\ session = "none"
    /\ poll_idx = 1
    /\ poll_invoked = <<>>
    /\ poll_failed = {}
    /\ poll_last = "none"
    /\ backoff = NoBackoff
    /\ sup_pc = "gather"
    /\ sup_idx = 0
    /\ sup_fail0 = 0
    /\ shutdown = "none"
    /\ poller_enabled = poller
    /\ stop_called = FALSE

\* The same, the frames not numbered
InitWith(storage, poller) == InitAll(storage, poller, FALSE)

----------------------------------------------------------------------------
(* WebSocketManager.start and ._connect_and_listen (manager.py). *)

CurrentVal == ValState(cal_samples, calibrated, clock_offset)

SetVal(st) ==
    /\ cal_samples' = st.samples
    /\ calibrated' = st.calibrated
    /\ clock_offset' = st.offset

\* A manager that opens the connection without resetting the validator.
ConnectNoReset(st) == st

\* _connect_and_listen, line 113: self._handler.reset() on each fresh connection
ConnectReset(st) == ResetState

\* start(), line 60: the reconnect ceiling is exceeded
CeilingHit(n, max) == max # 0 /\ n > max

\* An except clause that never counts the failed attempt.
ExceptPathUncounted(loss) ==
    IF ~mgr_running
    THEN /\ mgr_pc' = "stopped"
         /\ conn_loss' = loss
         /\ UNCHANGED <<mgr_running, reconnect_count>>
    ELSE /\ reconnect_count' = reconnect_count
         /\ IF CeilingHit(reconnect_count, max_attempts)
            THEN mgr_pc' = "stopped" /\ mgr_running' = FALSE /\ conn_loss' = loss
            ELSE mgr_pc' = "backoff" /\ mgr_running' = mgr_running /\ conn_loss' = "none"

\* History of one connection: frame number wire + 1 arrives and goes to
\* channel ch ("dropped" when nothing is dispatched for it); a handler is
\* invoked with the event of frame number wire; a new connection starts
\* the numbering again.
FrameArrives(ch) ==
    /\ wire < MaxFrames
    /\ wire' = IF wire >= 0 THEN wire + 1 ELSE wire
    /\ received' = IF wire >= 0 THEN Append(received, ch) ELSE received
    /\ UNCHANGED delivered
Deliver(cb) ==
    /\ delivered' = IF wire >= 0
                    THEN Append(delivered, [no |-> wire, ch |-> event.ch, cb |-> cb])
                    ELSE delivered
    /\ UNCHANGED <<wire, received>>
NewConnection ==
    /\ wire' = IF wire >= 0 THEN 0 ELSE wire
    /\ received' = <<>>
    /\ delivered' = <<>>

\* ConnectionConfig.reconnect_delay_base as the manager is configured by
\* default: the float 1.0 (config.py, lines 68 and 147)
DefaultBaseKind == "float"

\* start(), lines 55-74: an Exception left _connect_and_listen. Either the
\* loop is left (line 57 or 65, then line 76), or the backoff sleep begins,
\* or _backoff_delay (line 67) raises OverflowError inside the except clause
\* and start() is left by it, line 76 not run.
ExceptPath(loss) ==
    IF ~mgr_running
    THEN /\ mgr_pc' = "stopped"
         /\ conn_loss' = loss
         /\ UNCHANGED <<mgr_running, reconnect_count>>
    ELSE /\ reconnect_count' = reconnect_count + 1
         /\ IF CeilingHit(reconnect_count + 1, max_attempts)
            THEN mgr_pc' = "stopped" /\ mgr_running' = FALSE /\ conn_loss' = loss
            ELSE IF PowerOverflows(reconnect_count + 1, DefaultBaseKind)
            THEN mgr_pc' = "raised" /\ mgr_running' = mgr_running /\ conn_loss' = loss
            ELSE mgr_pc' = "backoff" /\ mgr_running' = mgr_running /\ conn_loss' = "none"

\* _connect_and_listen, lines 124-138, after _handle_message returned: the
\* while test; when it fails the connection is closed and the call returns.
FinishMessage ==
    /\ mgr_pc' = IF mgr_running THEN "listening" ELSE "loop"
    /\ ws' = IF mgr_running THEN ws ELSE "none"

\* start(), line 45
MgrStart ==
    /\ mgr_pc = "init"
    /\ mgr_running' = TRUE
    /\ mgr_pc' = "loop"
    /\ UNCHANGED <<ws, reconnect_count, max_attempts, frame, conn_loss>>
    /\ UNCHANGED <<val_vars, cb_vars, store_vars>>
    /\ UNCHANGED <<poll_vars, bk_vars, sup_vars, ord_vars, file_vars, pure_vars>>

\* start(), line 49, and _connect_and_listen up to the await of connect():
\* self._handler.reset() is called before the connection is opened.
MgrLoop ==
    /\ mgr_pc = "loop"
    /\ IF mgr_running
       THEN /\ SetVal(ConnectReset(CurrentVal))
            /\ seen' = 0
            /\ mgr_pc' = "connecting"
            /\ UNCHANGED mgr_running
       ELSE /\ mgr_pc' = "stopped"
            /\ mgr_running' = FALSE
            /\ UNCHANGED <<cal_samples, calibrated, clock_offset, seen>>
    /\ UNCHANGED <<ws, reconnect_count, max_attempts, frame, conn_loss, parsed>>
    /\ UNCHANGED <<cb_vars, store_vars>>
    /\ UNCHANGED <<poll_vars, bk_vars, sup_vars, ord_vars, file_vars, pure_vars>>

\* websockets.connect() succeeded, lines 119-124
MgrConnectOk ==
    /\ mgr_pc = "connecting"
    /\ reconnect_count' = 0
    /\ mgr_pc' = IF mgr_running THEN "listening" ELSE "loop"
    /\ ws' = IF mgr_running THEN "open" ELSE "none"
    /\ NewConnection
    /\ UNCHANGED <<mgr_running, max_attempts, frame, conn_loss>>
    /\ UNCHANGED <<val_vars, cb_vars, store_vars>>
    /\ UNCHANGED <<poll_vars, bk_vars, sup_vars, file_vars, pure_vars>>

\* websockets.connect() raised (refused, handshake failure, ...)
ConnectFails(cap) ==
    /\ mgr_pc = "connecting"
    /\ max_attempts # 0 \/ reconnect_count < cap
    /\ ExceptPath("connect_failed")
    /\ UNCHANGED <<ws, max_attempts, frame>>
    /\ UNCHANGED <<val_vars, cb_vars, store_vars>>
    /\ UNCHANGED <<poll_vars, bk_vars, sup_vars, ord_vars, file_vars, pure_vars>>

MgrConnectFail == ConnectFails(MaxCount)

\* the same over an outage as long as _backoff_delay is followed
MgrConnectFailLong == ConnectFails(MaxAttempt)

\* wait_for(ws.recv()) raised asyncio.TimeoutError: lines 131-133, 138
MgrTimeout ==
    /\ mgr_pc = "listening"
    /\ ws' = "none"
    /\ mgr_pc' = "loop"
    /\ conn_loss' = "timeout"
    /\ UNCHANGED <<mgr_running, reconnect_count, max_attempts, frame>>
    /\ UNCHANGED <<val_vars, cb_vars, store_vars>>
    /\ UNCHANGED <<poll_vars, bk_vars, sup_vars, ord_vars, file_vars, pure_vars>>

\* ws.recv() raised websockets.ConnectionClosed: lines 134-136, 138
MgrClosed ==
    /\ mgr_pc = "listening"
    /\ ws' = "none"
    /\ mgr_pc' = "loop"
    /\ conn_loss' = "closed"
    /\ UNCHANGED <<mgr_running, reconnect_count, max_attempts, frame>>
    /\ UNCHANGED <<val_vars, cb_vars, store_vars>>
    /\ UNCHANGED <<poll_vars, bk_vars, sup_vars, ord_vars, file_vars, pure_vars>>

\* ws.recv() returned frame f while the local clock reads now_ms: lines
\* 126-130 with _handle_message and _dispatch up to their first await.
MgrRecvFrame(f, now_ms) ==
    LET h == HandleMessage(f, CurrentVal, seen, now_ms)
        stored == storage_enabled /\ h.ch \in StoreTypeSet
    IN  /\ mgr_pc = "listening"
        /\ (h.out = "dispatch" /\ stored) => next_id <= MaxRecords
        /\ frame' = f
        /\ SetVal(h.st)
        /\ seen' = h.seen
        /\ parsed' = h.parsed
        /\ UNCHANGED max_attempts
        /\ IF h.out = "dispatch"
           THEN /\ event' = [ch |-> h.ch, id |-> IF stored THEN next_id ELSE 0]
                /\ next_id' = IF stored THEN next_id + 1 ELSE next_id
                /\ cb_idx' = 1
                /\ invoked' = <<>>
                /\ cb_failed' = {}
                /\ mgr_pc' = "dispatch"
                /\ UNCHANGED <<mgr_running, ws, reconnect_count, conn_loss>>
           ELSE IF h.out = "raise"
           THEN /\ ws' = "closed"
                /\ ExceptPath("error")
                /\ UNCHANGED <<cb_vars, next_id>>
           ELSE /\ FinishMessage
                /\ UNCHANGED <<mgr_running, reconnect_count, conn_loss, cb_vars, next_id>>
        /\ FrameArrives(IF h.out = "dispatch" THEN h.ch ELSE "dropped")
        /\ UNCHANGED <<storage_enabled, store_running, buffers, last_flush, inflight,
                       written, flush_pc, flush_idx, mono, failures>>
        /\ UNCHANGED <<poll_vars, bk_vars, sup_vars, file_vars, pure_vars>>

MgrRecv(frames, nows) == \E f \in frames, now_ms \in nows : MgrRecvFrame(f, now_ms)

\* asyncio.sleep(delay) of line 74 returned
MgrBackoffDone ==
    /\ mgr_pc = "backoff"
    /\ mgr_pc' = "loop"
    /\ UNCHANGED <<mgr_running, ws, reconnect_count, max_attempts, frame, conn_loss>>
    /\ UNCHANGED <<val_vars, cb_vars, store_vars>>
    /\ UNCHANGED <<poll_vars, bk_vars, sup_vars, ord_vars, file_vars, pure_vars>>

----------------------------------------------------------------------------
(* CallbackManager._dispatch (callbacks.py, lines 83-92), run by the       *)
(* manager task: one action per callback awaited.                          *)

CurrentCallbacks == Callbacks(event.ch, storage_enabled)

\* The for loop moves to position i; past the last callback _dispatch,
\* _handle_message return and the read loop takes its next turn.
DispatchGoto(i) ==
    /\ cb_idx' = i
    /\ IF i > Len(CurrentCallbacks)
       THEN FinishMessage
       ELSE mgr_pc' = "dispatch" /\ ws' = ws

\* await cb(event) for a console printer (main.py, _print_<type>): it
\* returns, or raises an Exception that _dispatch logs.
MgrInvokePrint ==
    /\ mgr_pc = "dispatch"
    /\ cb_idx <= Len(CurrentCallbacks)
    /\ CurrentCallbacks[cb_idx] = "print"
    /\ invoked' = Append(invoked, "print")
    /\ \E raises \in BOOLEAN :
          /\ cb_failed' = IF raises THEN cb_failed \cup {cb_idx} ELSE cb_failed
          /\ DispatchGoto(IF raises THEN AfterCallbackError(cb_idx)
                                  ELSE AfterCallbackReturn(cb_idx))
    /\ Deliver("print")
    /\ UNCHANGED <<mgr_running, reconnect_count, max_attempts, frame, conn_loss, event>>
    /\ UNCHANGED <<val_vars, store_vars>>
    /\ UNCHANGED <<poll_vars, bk_vars, sup_vars, file_vars, pure_vars>>

----------------------------------------------------------------------------
(* ParquetStore (parquet_store.py). *)

\* A store sink that started the write and returned without awaiting it
WriteDetached == "listening"

\* _flush, line 104: the caller is suspended until the write has ended
WriteWait == "await_write"

\* await cb(event) for store_trade / store_agg_trade / store_kline: the
\* record is appended; _maybe_flush either returns or _flush swaps the
\* buffer and suspends the caller in asyncio.to_thread (lines 93-104).
MgrInvokeStore ==
    LET t == event.ch
        appended == [buffers EXCEPT ![t] = Append(@, event.id)]
    IN  /\ mgr_pc = "dispatch"
        /\ cb_idx <= Len(CurrentCallbacks)
        /\ CurrentCallbacks[cb_idx] = "store"
        /\ invoked' = Append(invoked, "store")
        /\ IF ShouldFlush(appended, last_flush, t, mono)
           THEN /\ inflight' = [inflight EXCEPT !["mgr"] = Swapped(appended, t)]
                /\ buffers' = [appended EXCEPT ![t] = <<>>]
                /\ last_flush' = [last_flush EXCEPT ![t] = mono]
                /\ mgr_pc' = WriteWait
                /\ UNCHANGED <<cb_idx, ws>>
           ELSE /\ buffers' = appended
                /\ DispatchGoto(AfterCallbackReturn(cb_idx))
                /\ UNCHANGED <<inflight, last_flush>>
        /\ UNCHANGED <<mgr_running, reconnect_count, max_attempts, frame, conn_loss>>
        /\ UNCHANGED <<event, cb_failed, val_vars>>
        /\ Deliver("store")
        /\ UNCHANGED <<storage_enabled, store_running, written, flush_pc, flush_idx,
                       mono, next_id, failures>>
        /\ UNCHANGED <<poll_vars, bk_vars, sup_vars, file_vars, pure_vars>>

\* _flush resumes in the manager task after to_thread returned or raised
\* (lines 104-108); store_<type> returns to _dispatch's for loop.
MgrWriteReturn ==
    /\ mgr_pc = "await_write"
    /\ inflight["mgr"].status \in {"done", "failed"}
    /\ buffers' = AfterWrite(buffers, inflight["mgr"])
    /\ inflight' = [inflight EXCEPT !["mgr"] = NoWrite]
    /\ DispatchGoto(AfterCallbackReturn(cb_idx))
    /\ UNCHANGED <<mgr_running, reconnect_count, max_attempts, frame, conn_loss>>
    /\ UNCHANGED <<event, invoked, cb_failed, val_vars>>
    /\ UNCHANGED <<storage_enabled, store_running, last_flush, written, flush_pc,
                   flush_idx, mono, next_id, failures>>
    /\ UNCHANGED <<poll_vars, bk_vars, sup_vars, ord_vars, file_vars, pure_vars>>

\* _sync_write, lines 114-121: the file at out_dir / f"{symbol}_{ts}.parquet"
\* with ts of one-second resolution holds the records of this write;
\* pq.write_table replaces a file that is already at that path.
WriteFile(fs, t, sec, recs) ==
    {f \in fs : ~(f.type = t /\ f.sec = sec)} \cup {[type |-> t, sec |-> sec, recs |-> recs]}

\* _sync_write in the executor thread wrote the file (lines 110-127)
WriteOk(c) ==
    /\ inflight[c].status = "running"
    /\ inflight' = [inflight EXCEPT ![c].status = "done"]
    /\ written' = Append(written, [type |-> inflight[c].type, recs |-> inflight[c].recs])
    /\ files' = WriteFile(files, inflight[c].type, now_s, inflight[c].recs)
    /\ UNCHANGED now_s
    /\ UNCHANGED <<mgr_vars, val_vars, cb_vars>>
    /\ UNCHANGED <<storage_enabled, store_running, buffers, last_flush, flush_pc,
                   flush_idx, mono, next_id, failures>>
    /\ UNCHANGED <<poll_vars, bk_vars, sup_vars, ord_vars, pure_vars>>

\* The wall clock passes to the next second
TickSecond ==
    /\ storage_enabled
    /\ now_s < MaxSecond
    /\ now_s' = now_s + 1
    /\ UNCHANGED files
    /\ UNCHANGED <<mgr_vars, val_vars, cb_vars, store_vars>>
    /\ UNCHANGED <<poll_vars, bk_vars, sup_vars, ord_vars, pure_vars>>

\* _sync_write raised (disk full, permission, ...)
WriteFail(c) ==
    /\ inflight[c].status = "running"
    /\ failures < MaxFailures
    /\ failures' = failures + 1
    /\ inflight' = [inflight EXCEPT ![c].status = "failed"]
    /\ UNCHANGED <<mgr_vars, val_vars, cb_vars>>
    /\ UNCHANGED <<storage_enabled, store_running, buffers, last_flush, written,
                   flush_pc, flush_idx, mono, next_id>>
    /\ UNCHANGED <<poll_vars, bk_vars, sup_vars, ord_vars, file_vars, pure_vars>>

\* periodic_flush_loop's for loop from position i on, over buffers bufs and
\* in-flight calls fl: it suspends in the _flush of the first type due, or
\* ends and the while loop sleeps again (lines 64-69).
PeriodicScan(bufs, fl, i) ==
    LET j == NextDue(bufs, last_flush, mono, i) IN
    IF j = 0
    THEN /\ buffers' = bufs
         /\ inflight' = fl
         /\ flush_pc' = IF store_running THEN "sleep" ELSE "done"
         /\ flush_idx' = 0
         /\ UNCHANGED last_flush
    ELSE /\ inflight' = [fl EXCEPT !["periodic"] = Swapped(bufs, StoreTypes[j])]
         /\ buffers' = [bufs EXCEPT ![StoreTypes[j]] = <<>>]
         /\ last_flush' = [last_flush EXCEPT ![StoreTypes[j]] = mono]
         /\ flush_pc' = "await_write"
         /\ flush_idx' = j

\* asyncio.sleep(30) returned
PeriodicWake ==
    /\ storage_enabled
    /\ flush_pc = "sleep"
    /\ PeriodicScan(buffers, inflight, 1)
    /\ UNCHANGED <<mgr_vars, val_vars, cb_vars>>
    /\ UNCHANGED <<storage_enabled, store_running, written, mono, next_id, failures>>
    /\ UNCHANGED <<poll_vars, bk_vars, sup_vars, ord_vars, file_vars, pure_vars>>

\* _flush resumes in the periodic task after to_thread returned or raised
PeriodicResume ==
    /\ flush_pc = "await_write"
    /\ inflight["periodic"].status \in {"done", "failed"}
    /\ PeriodicScan(AfterWrite(buffers, inflight["periodic"]),
                    [inflight EXCEPT !["periodic"] = NoWrite], flush_idx + 1)
    /\ UNCHANGED <<mgr_vars, val_vars, cb_vars>>
    /\ UNCHANGED <<storage_enabled, store_running, written, mono, next_id, failures>>
    /\ UNCHANGED <<poll_vars, bk_vars, sup_vars, ord_vars, file_vars, pure_vars>>

\* time.monotonic() advances
Tick ==
    /\ storage_enabled
    /\ mono < MaxTime
    /\ mono' = mono + 1
    /\ UNCHANGED <<mgr_vars, val_vars, cb_vars>>
    /\ UNCHANGED <<storage_enabled, store_running, buffers, last_flush, inflight,
                   written, flush_pc, flush_idx, next_id, failures>>
    /\ UNCHANGED <<poll_vars, bk_vars, sup_vars, ord_vars, file_vars, pure_vars>>

----------------------------------------------------------------------------
(* OrderBookPoller (order_book_poller.py). *)

PollCallbacks == Callbacks("order_book_snapshot", storage_enabled)

\* start(), lines 50-76: the session is created and the loop entered
PollStart ==
    /\ poller_enabled
    /\ poll_pc = "init"
    /\ poll_running' = TRUE
    /\ session' = "open"
    /\ poll_pc' = "request"
    /\ UNCHANGED <<poll_idx, poll_invoked, poll_failed, poll_last>>
    /\ UNCHANGED <<mgr_vars, val_vars, cb_vars, store_vars, bk_vars, sup_vars, ord_vars, file_vars, pure_vars>>

\* A loop that is left when a poll fails
LeaveOnPollError == "stopped"

\* start(), lines 81-84, and _poll, lines 103-109: a failed poll is logged
\* and the loop goes on to its sleep
AfterPollError == "sleep"

\* _poll: the GET ended. "ok": status 200 and a body from_rest accepts, the
\* snapshot is dispatched; "http_error": status not 200, _poll returns;
\* "network_error", "decode_error": session.get, resp.json or from_rest
\* raised, start() logs it (lines 81-82). All but "ok" lead to the sleep.
PollResponse(outcome) ==
    /\ poll_pc = "request"
    /\ poll_last' = outcome
    /\ IF outcome = "ok"
       THEN /\ poll_pc' = "dispatch"
            /\ poll_idx' = 1
            /\ poll_invoked' = <<>>
            /\ poll_failed' = {}
       ELSE /\ poll_pc' = AfterPollError
            /\ UNCHANGED <<poll_idx, poll_invoked, poll_failed>>
    /\ UNCHANGED <<poll_running, session>>
    /\ UNCHANGED <<mgr_vars, val_vars, cb_vars, store_vars, bk_vars, sup_vars, ord_vars, file_vars, pure_vars>>

PollOutcomes == {"ok", "http_error", "network_error", "decode_error"}

\* CallbackManager._dispatch in the poller task: await cb(snapshot) for the
\* console printer; past the last callback _poll returns and start() sleeps.
PollInvokePrint ==
    /\ poll_pc = "dispatch"
    /\ poll_idx <= Len(PollCallbacks)
    /\ PollCallbacks[poll_idx] = "print"
    /\ poll_invoked' = Append(poll_invoked, "print")
    /\ \E raises \in BOOLEAN :
          /\ poll_failed' = IF raises THEN poll_failed \cup {poll_idx} ELSE poll_failed
          /\ poll_idx' = IF raises THEN AfterCallbackError(poll_idx)
                                 ELSE AfterCallbackReturn(poll_idx)
    /\ poll_pc' = IF poll_idx' > Len(PollCallbacks) THEN "sleep" ELSE "dispatch"
    /\ UNCHANGED <<poll_running, session, poll_last>>
    /\ UNCHANGED <<mgr_vars, val_vars, cb_vars, store_vars, bk_vars, sup_vars, ord_vars, file_vars, pure_vars>>

\* asyncio.sleep(self._interval) returned: the while test of line 76
PollSleepDone ==
    /\ poll_pc = "sleep"
    /\ poll_pc' = IF poll_running THEN "request" ELSE "stopped"
    /\ UNCHANGED <<poll_running, session, poll_idx, poll_invoked, poll_failed, poll_last>>
    /\ UNCHANGED <<mgr_vars, val_vars, cb_vars, store_vars, bk_vars, sup_vars, ord_vars, file_vars, pure_vars>>

----------------------------------------------------------------------------
(* WebSocketManager.stop (manager.py, lines 79-83), ParquetStore.flush_all *)
(* and close (parquet_store.py, lines 73-80), and _run's supervision of    *)
(* the tasks (main.py, lines 137-156).                                     *)
(*                                                                         *)
(* Another task runs only while a task is suspended at an await: there is  *)
(* no stop(), cancellation or teardown step while the manager or the       *)
(* poller is between two callbacks that do not suspend.                    *)

\* The states in which the manager task, the poller task and the periodic
\* task are suspended, have not started, or have ended
MgrSuspended ==
    mgr_pc \in {"init", "connecting", "listening", "await_write", "backoff",
                "stopped", "cancelled", "raised"}
PollSuspended == poll_pc \in {"init", "request", "sleep", "stopped", "cancelled"}
MgrEnded == mgr_pc \in {"stopped", "cancelled"}
PollEnded == poll_pc \in {"stopped", "cancelled"}
PeriodicEnded == flush_pc \in {"done", "cancelled"}

\* A stop() that closed the connection and left _running as it is
StopClosesOnly ==
    /\ mgr_running' = mgr_running
    /\ ws' = IF ws = "open" THEN "closed" ELSE ws
    /\ stop_called' = TRUE

\* stop(): self._running = False, and the live connection is closed
MgrStopEffect ==
    /\ mgr_running' = FALSE
    /\ ws' = IF ws = "open" THEN "closed" ELSE ws
    /\ stop_called' = TRUE

\* stop() called on a manager whose start() has begun
MgrStop ==
    /\ mgr_pc # "init"
    /\ MgrSuspended
    /\ ~stop_called
    /\ MgrStopEffect
    /\ UNCHANGED <<mgr_pc, reconnect_count, max_attempts, frame, conn_loss>>
    /\ UNCHANGED <<val_vars, cb_vars, store_vars, poll_vars, bk_vars, ord_vars, file_vars, pure_vars>>
    /\ UNCHANGED <<sup_pc, sup_idx, sup_fail0, shutdown, poller_enabled>>

\* flush_all's for loop: the first type at or after position i whose buffer
\* is not empty (_flush returns at once on an empty buffer), 0 when none is.
RECURSIVE NextNonEmpty(_, _)
NextNonEmpty(bufs, i) ==
    IF i > Len(StoreTypes) THEN 0
    ELSE IF bufs[StoreTypes[i]] # <<>> THEN i
    ELSE NextNonEmpty(bufs, i + 1)

\* A flush_all that leaves out the first type.
FlushAllSkipsFirst(bufs, i) == NextNonEmpty(bufs, IF i = 1 THEN 2 ELSE i)

\* flush_all, lines 75-76: the type whose _flush suspends next
FlushAllNext(bufs, i) == NextNonEmpty(bufs, i)

\* flush_all from position i on, over buffers bufs and in-flight calls fl:
\* it suspends in the _flush of the next non-empty type (pc waiting), or
\* returns to its caller (pc returned).
FlushAllScan(bufs, fl, i, waiting, returned) ==
    LET j == FlushAllNext(bufs, i) IN
    IF j = 0
    THEN /\ buffers' = bufs
         /\ inflight' = fl
         /\ sup_pc' = returned
         /\ sup_idx' = 0
         /\ UNCHANGED last_flush
    ELSE /\ inflight' = [fl EXCEPT !["sup"] = Swapped(bufs, StoreTypes[j])]
         /\ buffers' = [bufs EXCEPT ![StoreTypes[j]] = <<>>]
         /\ last_flush' = [last_flush EXCEPT ![StoreTypes[j]] = mono]
         /\ sup_pc' = waiting
         /\ sup_idx' = j

\* Failed writes so far; -1 when a failed write has not been put back yet
FailuresSeen ==
    IF \E c \in Callers : inflight[c].status = "failed" THEN 0 - 1 ELSE failures

\* flush_all() called on the store once the manager has ended
SupFlushAll ==
    /\ storage_enabled
    /\ sup_pc = "gather"
    /\ MgrEnded
    /\ sup_fail0' = FailuresSeen
    /\ FlushAllScan(buffers, inflight, 1, "flush_all", "flushed")
    /\ UNCHANGED <<store_running, written, flush_pc, flush_idx, mono, next_id, failures>>
    /\ UNCHANGED <<storage_enabled, shutdown, poller_enabled, stop_called>>
    /\ UNCHANGED <<mgr_vars, val_vars, cb_vars, poll_vars, bk_vars, ord_vars, file_vars, pure_vars>>

\* close(): self._running = False, then flush_all(). Called after flush_all()
\* returned, or by _run's finally clause (line 156).
SupClose ==
    /\ storage_enabled
    /\ sup_pc \in {"flushed", "close"}
    /\ store_running' = FALSE
    /\ sup_fail0' = IF sup_pc = "close" THEN FailuresSeen ELSE sup_fail0
    /\ FlushAllScan(buffers, inflight, 1, "closing", "done")
    /\ UNCHANGED <<written, flush_pc, flush_idx, mono, next_id, failures>>
    /\ UNCHANGED <<storage_enabled, shutdown, poller_enabled, stop_called>>
    /\ UNCHANGED <<mgr_vars, val_vars, cb_vars, poll_vars, bk_vars, ord_vars, file_vars, pure_vars>>

\* _flush resumes in flush_all after to_thread returned or raised
SupResume ==
    /\ sup_pc \in {"flush_all", "closing"}
    /\ inflight["sup"].status \in {"done", "failed"}
    /\ FlushAllScan(AfterWrite(buffers, inflight["sup"]),
                    [inflight EXCEPT !["sup"] = NoWrite], sup_idx + 1,
                    sup_pc, IF sup_pc = "flush_all" THEN "flushed" ELSE "done")
    /\ UNCHANGED <<store_running, written, flush_pc, flush_idx, mono, next_id, failures>>
    /\ UNCHANGED <<storage_enabled, sup_fail0, shutdown, poller_enabled, stop_called>>
    /\ UNCHANGED <<mgr_vars, val_vars, cb_vars, poll_vars, bk_vars, ord_vars, file_vars, pure_vars>>

\* CancelledError thrown into the manager task where it is suspended.
\* Awaiting connect(): caught at line 52, start() returns. Awaiting recv() or
\* a callback: the error leaves the `async with`, which closes the
\* connection, skips line 138, and is caught at line 52. In the backoff
\* sleep, inside the except clause of line 55: nothing catches it, start()
\* is left by the CancelledError and line 76 is not run. A task cancelled
\* before its first step never runs.
CancelMgr ==
    /\ mgr_pc' = CASE mgr_pc \in {"init", "backoff"} -> "cancelled"
                   [] mgr_pc \in {"connecting", "listening", "await_write"} -> "stopped"
                   [] OTHER -> mgr_pc
    /\ mgr_running' = IF mgr_pc \in {"connecting", "listening", "await_write"}
                      THEN FALSE ELSE mgr_running
    /\ ws' = IF mgr_pc \in {"listening", "await_write"} THEN "closed" ELSE ws

\* CancelledError thrown into the periodic task: nothing catches it, neither
\* in the sleep nor in _flush, whose `except Exception` does not match.
CancelPeriodic ==
    flush_pc' = IF storage_enabled /\ flush_pc \in {"sleep", "await_write"}
                THEN "cancelled" ELSE flush_pc

\* CancelledError thrown into the poller task: start() catches it around
\* _poll and around the sleep and leaves its loop (lines 79-80, 86-87).
CancelPoll ==
    /\ poll_pc' = CASE poller_enabled /\ poll_pc = "init" -> "cancelled"
                    [] poll_pc \in {"request", "sleep"} -> "stopped"
                    [] OTHER -> poll_pc
    /\ poll_last' = IF poll_pc' # poll_pc THEN "cancelled" ELSE poll_last

\* OrderBookPoller.stop() called on a poller whose start() has begun and is
\* suspended (lines 94-98): _running is cleared, the session closed
PollStop ==
    /\ poll_pc # "init"
    /\ PollSuspended
    /\ poll_running
    /\ poll_running' = FALSE
    /\ session' = IF session = "open" THEN "closed" ELSE session
    /\ UNCHANGED <<poll_pc, poll_idx, poll_invoked, poll_failed, poll_last>>
    /\ UNCHANGED <<mgr_vars, val_vars, cb_vars, store_vars, bk_vars, sup_vars, ord_vars, file_vars, pure_vars>>

\* The poller's task alone is cancelled, in its request or in its sleep
PollCancel ==
    /\ poll_pc \in {"request", "sleep"}
    /\ CancelPoll
    /\ UNCHANGED <<poll_running, session, poll_idx, poll_invoked, poll_failed>>
    /\ UNCHANGED <<mgr_vars, val_vars, cb_vars, store_vars, bk_vars, sup_vars, ord_vars, file_vars, pure_vars>>

\* The task running _run is cancelled while it awaits gather (Ctrl+C under
\* asyncio.run): gather cancels every task, and _run's finally clause begins.
SupCancel ==
    /\ sup_pc = "gather"
    /\ MgrSuspended
    /\ PollSuspended
    /\ shutdown' = "cancel"
    /\ sup_pc' = "stop_mgr"
    /\ CancelMgr
    /\ CancelPeriodic
    /\ CancelPoll
    /\ UNCHANGED <<reconnect_count, max_attempts, frame, conn_loss>>
    /\ UNCHANGED <<val_vars, cb_vars, bk_vars, ord_vars, file_vars, pure_vars>>
    /\ UNCHANGED <<storage_enabled, store_running, buffers, last_flush, inflight,
                   written, flush_idx, mono, next_id, failures>>
    /\ UNCHANGED <<poll_running, session, poll_idx, poll_invoked, poll_failed>>
    /\ UNCHANGED <<sup_idx, sup_fail0, poller_enabled, stop_called>>

\* gather returns: every task has ended (line 150)
SupGatherDone ==
    /\ sup_pc = "gather"
    /\ MgrEnded
    /\ poller_enabled => PollEnded
    /\ storage_enabled => PeriodicEnded
    /\ shutdown' = "finished"
    /\ sup_pc' = "stop_mgr"
    /\ UNCHANGED <<sup_idx, sup_fail0, poller_enabled, stop_called>>
    /\ UNCHANGED <<mgr_vars, val_vars, cb_vars, store_vars, poll_vars, bk_vars, ord_vars, file_vars, pure_vars>>

\* finally: await manager.stop() (line 152)
SupStopMgr ==
    /\ sup_pc = "stop_mgr"
    /\ MgrSuspended
    /\ MgrStopEffect
    /\ sup_pc' = "stop_poll"
    /\ UNCHANGED <<mgr_pc, reconnect_count, max_attempts, frame, conn_loss>>
    /\ UNCHANGED <<val_vars, cb_vars, store_vars, bk_vars, ord_vars, file_vars, pure_vars>>
    /\ UNCHANGED <<poll_pc, poll_idx, poll_invoked, poll_failed, poll_last>>
    /\ UNCHANGED <<poll_running, session>>
    /\ UNCHANGED <<sup_idx, sup_fail0, shutdown, poller_enabled>>

\* finally: `if poller: await poller.stop()` (lines 153-154; poller.stop,
\* lines 94-98), and on to `if storage:`
SupStopPoll ==
    /\ sup_pc = "stop_poll"
    /\ PollSuspended
    /\ poll_running' = IF poller_enabled THEN FALSE ELSE poll_running
    /\ session' = IF poller_enabled /\ session = "open" THEN "closed" ELSE session
    /\ sup_pc' = IF storage_enabled THEN "close" ELSE "done"
    /\ UNCHANGED <<poll_pc, poll_idx, poll_invoked, poll_failed, poll_last>>
    /\ UNCHANGED <<mgr_vars, val_vars, cb_vars, store_vars, bk_vars, ord_vars, file_vars, pure_vars>>
    /\ UNCHANGED <<sup_idx, sup_fail0, shutdown, poller_enabled, stop_called>>

----------------------------------------------------------------------------
(* WebSocketManager._backoff_delay called as start() calls it on           *)
(* consecutive failures: with _reconnect_count = 1, 2, 3, ...              *)

\* The next failure in a row: the counter is one higher (line 59) and the
\* delay is computed (line 67). The configuration is chosen at the first call.
BackoffCall ==
    /\ backoff.count < MaxAttempt
    /\ ~backoff.raised
    /\ \E kind \in BaseKinds, max_delay \in MaxDelays :
          /\ backoff.count > 0 => (kind = backoff.kind /\ max_delay = backoff.max_delay)
          /\ LET count == backoff.count + 1 IN
             \E jitter \in (IF PowerOverflows(count, kind) THEN {0}
                            ELSE JitterDraws(NominalDelay(count, max_delay))) :
                backoff' = BackoffDelay(count, kind, max_delay, jitter)
    /\ UNCHANGED <<mgr_vars, val_vars, cb_vars, store_vars, poll_vars, sup_vars, ord_vars, file_vars, pure_vars>>

----------------------------------------------------------------------------
(* MessageHandler called directly, as by a unit of the validator alone.    *)

\* parse_<type>(data) for a timestamped type
ValParse(p, now_ms) ==
    LET r == ParseTimestamped(CurrentVal, p, now_ms) IN
    /\ SetVal(r.st)
    /\ parsed' = ParseRecord(CurrentVal, seen, p, now_ms, r.res)
    /\ seen' = IF p.hasE /\ p.numE /\ seen < SeenCap THEN seen + 1 ELSE seen
    /\ UNCHANGED <<mgr_vars, cb_vars, store_vars>>
    /\ UNCHANGED <<poll_vars, bk_vars, sup_vars, ord_vars, file_vars, pure_vars>>

\* reset()
ValReset ==
    /\ SetVal(ResetState)
    /\ seen' = 0
    /\ UNCHANGED parsed
    /\ UNCHANGED <<mgr_vars, cb_vars, store_vars>>
    /\ UNCHANGED <<poll_vars, bk_vars, sup_vars, ord_vars, file_vars, pure_vars>>

----------------------------------------------------------------------------
(* Specifications. *)

NowsWide == 0..MaxNowMs
EventTimesWide == 0..MaxEventTime
\* one reading of the local clock, and events stamped at that instant
NowsNarrow == {MaxNowMs}
EventTimesFresh == {MaxNowMs}

AllSuffixes == TimestampedSuffixes \cup UntimedSuffixes
AllFrames ==
    EnvelopeMalformed \cup PayloadMalformed(MaxNowMs) \cup WellFormed(AllSuffixes, EventTimesFresh)
TimedFrames == WellFormed({Suffix_trade, Suffix_depthUpd}, EventTimesWide)
StoreFrames == WellFormed({Suffix_trade, Suffix_aggTrade, Suffix_kline}, EventTimesFresh)

\* Reconnect ceilings tried: unbounded, and the largest of the bound.
Ceilings == {0, MaxCeiling}

\* Streaming without storage (--no-storage): manager, validator, dispatcher,
\* over an unreliable connection carrying every kind of frame.
Init == InitWith(FALSE, FALSE) /\ max_attempts \in Ceilings
Next ==
    \/ MgrStart
    \/ MgrLoop
    \/ MgrConnectOk
    \/ MgrConnectFail
    \/ MgrRecv(AllFrames, NowsNarrow)
    \/ MgrTimeout
    \/ MgrClosed
    \/ MgrInvokePrint
    \/ MgrBackoffDone
Spec == Init /\ [][Next]_vars

\* The same, the connection carrying well-formed timestamped events of every
\* age.
NextTimed ==
    \/ MgrStart
    \/ MgrLoop
    \/ MgrConnectOk
    \/ MgrRecv(TimedFrames, NowsNarrow)
    \/ MgrTimeout
    \/ MgrInvokePrint
SpecTimed == Init /\ [][NextTimed]_vars

\* Streaming into the store over a reliable connection: appends, size- and
\* time-triggered flushes, the periodic loop, writes that succeed or fail.
InitStore == InitWith(TRUE, FALSE) /\ max_attempts = 0
NextStore ==
    \/ MgrStart
    \/ MgrLoop
    \/ MgrConnectOk
    \/ MgrRecv(StoreFrames, NowsNarrow)
    \/ MgrInvokePrint
    \/ MgrInvokeStore
    \/ MgrWriteReturn
    \/ \E c \in Callers : WriteOk(c)
    \/ \E c \in Callers : WriteFail(c)
    \/ PeriodicWake
    \/ PeriodicResume
    \/ Tick
SpecStore == InitStore /\ [][NextStore]_vars

\* The same, the periodic loop waking from each sleep and every write
\* ending; events may stop arriving at any moment.
PeriodicSteps ==
    \/ PeriodicWake
    \/ PeriodicResume
    \/ \E c \in Callers : WriteOk(c)
    \/ \E c \in Callers : WriteFail(c)
SpecPeriodic == InitStore /\ [][NextStore]_vars /\ WF_vars(PeriodicSteps)

\* Streaming into the store while the seconds of the wall clock pass: the
\* files the writes leave under base_dir.
NextFiles == NextStore \/ TickSecond
SpecFiles == InitStore /\ [][NextFiles]_vars

\* Streaming and polling with storage enabled, seen from the dispatcher: the
\* two producers dispatch to callbacks that raise or return; the disk is
\* healthy and the run is shorter than the rotation interval, so that the
\* periodic check finds nothing due.
InitDispatch == InitWith(TRUE, TRUE) /\ max_attempts = 0
NextDispatch ==
    \/ MgrStart
    \/ MgrLoop
    \/ MgrConnectOk
    \/ MgrRecv(StoreFrames, NowsNarrow)
    \/ MgrInvokePrint
    \/ MgrInvokeStore
    \/ MgrWriteReturn
    \/ WriteOk("mgr")
    \/ PollStart
    \/ \E outcome \in PollOutcomes : PollResponse(outcome)
    \/ PollInvokePrint
    \/ PollSleepDone
SpecDispatch == InitDispatch /\ [][NextDispatch]_vars

\* The same application receiving events of every type the dispatcher
\* routes, with the store registered and the poller running.
EveryTypeFrames == WellFormed(AllSuffixes, EventTimesFresh)
NextEveryType ==
    \/ MgrStart
    \/ MgrLoop
    \/ MgrConnectOk
    \/ MgrRecv(EveryTypeFrames, NowsNarrow)
    \/ MgrInvokePrint
    \/ MgrInvokeStore
    \/ MgrWriteReturn
    \/ WriteOk("mgr")
    \/ PollStart
    \/ \E outcome \in PollOutcomes : PollResponse(outcome)
    \/ PollInvokePrint
    \/ PollSleepDone
SpecEveryType == InitDispatch /\ [][NextEveryType]_vars

\* The validator alone.
InitVal == InitWith(FALSE, FALSE) /\ max_attempts = 0
NextVal ==
    \/ \E E \in EventTimesWide, now_ms \in NowsWide, ok \in BOOLEAN :
          ValParse(Payload(TRUE, TRUE, E, ok), now_ms)
    \/ \E hasE \in BOOLEAN : ValParse(Payload(hasE, FALSE, 0, TRUE), 0)
    \/ ValReset
SpecVal == InitVal /\ [][NextVal]_vars

\* The store's shutdown: the manager streams into the store until stop() is
\* called on it (the connection closes only then); once it has ended,
\* flush_all() and then close() are called while the periodic loop is
\* running, sleeping or writing.
NextClose ==
    \/ MgrStart
    \/ MgrLoop
    \/ MgrConnectOk
    \/ MgrRecv(StoreFrames, NowsNarrow)
    \/ stop_called /\ MgrClosed
    \/ MgrInvokePrint
    \/ MgrInvokeStore
    \/ MgrWriteReturn
    \/ \E c \in Callers : WriteOk(c)
    \/ \E c \in Callers : WriteFail(c)
    \/ PeriodicWake
    \/ PeriodicResume
    \/ Tick
    \/ MgrStop
    \/ SupFlushAll
    \/ SupClose
    \/ SupResume
SpecClose == InitStore /\ [][NextClose]_vars

\* The whole of _run: the manager over a connection that fails, closes and
\* carries trades, the poller and the periodic loop when they are enabled,
\* the writes, and _run awaiting gather until every task has ended or until
\* it is cancelled (Ctrl+C), then tearing down. Every task that can take a
\* step eventually takes one; a cancellation may never come.
ShutdownFrames == WellFormed({Suffix_trade}, EventTimesFresh)
InitShutdown ==
    /\ \E enabled \in BOOLEAN : InitWith(enabled, enabled)
    /\ max_attempts = MaxCeiling
TaskSteps ==
    \/ MgrStart
    \/ MgrLoop
    \/ MgrConnectOk
    \/ MgrConnectFail
    \/ MgrRecv(ShutdownFrames, NowsNarrow)
    \/ MgrClosed
    \/ MgrInvokePrint
    \/ MgrInvokeStore
    \/ MgrWriteReturn
    \/ MgrBackoffDone
    \/ \E c \in Callers : WriteOk(c)
    \/ \E c \in Callers : WriteFail(c)
    \/ PeriodicWake
    \/ PeriodicResume
    \/ Tick
    \/ PollStart
    \/ \E outcome \in PollOutcomes : PollResponse(outcome)
    \/ PollInvokePrint
    \/ PollSleepDone
    \/ SupGatherDone
    \/ SupStopMgr
    \/ SupStopPoll
    \/ SupClose
    \/ SupResume
NextShutdown == TaskSteps \/ SupCancel
SpecShutdown == InitShutdown /\ [][NextShutdown]_vars /\ WF_vars(TaskSteps)

\* The manager without storage over a connection that carries every kind of
\* well-formed event, payloads the validator rejects, and envelopes whose
\* stream suffix is cut short or unknown.
Suffix_depthBare == S_depth
Suffix_depthLevels == S_depth \o <<"5">>
Suffix_klineBare == S_kline_
OddSuffixFrames ==
    {Envelope(Suffix_depthBare, Payload(TRUE, TRUE, MaxNowMs, TRUE)),
     Envelope(Suffix_depthLevels, Payload(FALSE, FALSE, 0, TRUE)),
     Envelope(Suffix_klineBare, Payload(TRUE, TRUE, MaxNowMs, TRUE)),
     F_unknown_suffix, F_no_at}
RouteFrames ==
    WellFormed(AllSuffixes, EventTimesFresh) \cup PayloadMalformed(MaxNowMs) \cup OddSuffixFrames
InitRoute == InitWith(FALSE, FALSE) /\ max_attempts = 0
NextRoute ==
    \/ MgrStart
    \/ MgrLoop
    \/ MgrConnectOk
    \/ MgrRecv(RouteFrames, NowsNarrow)
    \/ MgrClosed
    \/ MgrInvokePrint
SpecRoute == InitRoute /\ [][NextRoute]_vars

\* The poller beside the manager, without storage: polls that succeed or
\* fail, stop() and the cancellation of the poller's task at any suspension.
\* The poller's own steps are eventually taken.
InitPoll == InitWith(FALSE, TRUE) /\ max_attempts = 0
PollSteps ==
    \/ PollStart
    \/ \E outcome \in PollOutcomes : PollResponse(outcome)
    \/ PollInvokePrint
    \/ PollSleepDone
NextPoll ==
    \/ PollSteps
    \/ PollStop
    \/ PollCancel
    \/ MgrStart
    \/ MgrLoop
    \/ MgrConnectOk
    \/ MgrRecv(ShutdownFrames, NowsNarrow)
    \/ MgrClosed
    \/ MgrInvokePrint
SpecPoll == InitPoll /\ [][NextPoll]_vars /\ WF_vars(PollSteps)

\* The manager with storage over a connection that carries trades (printed
\* and stored), book tickers (printed), frames that are dropped, and that
\* closes and is opened again; the frames of a connection are numbered.
OrderFrames ==
    WellFormed({Suffix_trade, Suffix_bookTicker}, EventTimesFresh) \cup {F_unknown_suffix}
InitOrder == InitAll(TRUE, FALSE, TRUE) /\ max_attempts = 0
NextOrder ==
    \/ MgrStart
    \/ MgrLoop
    \/ MgrConnectOk
    \/ MgrRecv(OrderFrames, NowsNarrow)
    \/ MgrClosed
    \/ MgrInvokePrint
    \/ MgrInvokeStore
    \/ MgrWriteReturn
    \/ WriteOk("mgr")
    \/ WriteFail("mgr")
SpecOrder == InitOrder /\ [][NextOrder]_vars

\* The manager alone over an unreliable connection carrying trades, and
\* stop() called on it at any moment after start() began. The manager and
\* the connection keep taking steps; stop() may never be called.
NextRun ==
    \/ MgrStart
    \/ MgrLoop
    \/ MgrConnectOk
    \/ MgrConnectFail
    \/ MgrRecv(ShutdownFrames, NowsNarrow)
    \/ MgrTimeout
    \/ MgrClosed
    \/ MgrInvokePrint
    \/ MgrBackoffDone
NextStop == NextRun \/ MgrStop
SpecStop == Init /\ [][NextStop]_vars /\ WF_vars(NextRun)

\* The manager through a long outage: connect attempts fail one after the
\* other, now and then a connection is established and closed again, and
\* stop() may be called at any moment.
NextOutage ==
    \/ MgrStart
    \/ MgrLoop
    \/ MgrConnectOk
    \/ MgrConnectFailLong
    \/ MgrClosed
    \/ MgrBackoffDone
    \/ MgrStop
SpecOutage == Init /\ [][NextOutage]_vars

\* OrderBookPoller.start() called on a poller built from any settings
StartCall ==
    /\ \E limit \in Limits, interval \in Intervals :
          rate' = PollerStartup(limit, interval)
    /\ UNCHANGED <<agg, depth>>
    /\ UNCHANGED <<mgr_vars, val_vars, cb_vars, store_vars, poll_vars, bk_vars, sup_vars, ord_vars, file_vars>>

NextBudget == StartCall
SpecBudget == InitVal /\ [][NextBudget]_vars

\* parse_agg_trade called on any aggregated-trade payload
AggCall ==
    /\ \E f \in TradeIds, l \in TradeIds, stale \in BOOLEAN :
          agg' = ParseAggTrade(f, l, stale)
    /\ UNCHANGED <<rate, depth>>
    /\ UNCHANGED <<mgr_vars, val_vars, cb_vars, store_vars, poll_vars, bk_vars, sup_vars, ord_vars, file_vars>>

NextAgg == AggCall
SpecAgg == InitVal /\ [][NextAgg]_vars

\* parse_depth_update called once, on any depth-delta payload
DepthCall ==
    /\ ~depth.called
    /\ \E b \in WireLadders, a \in WireLadders, stale \in BOOLEAN :
          depth' = ParseDepthUpdate(b, a, stale)
    /\ UNCHANGED <<rate, agg>>
    /\ UNCHANGED <<mgr_vars, val_vars, cb_vars, store_vars, poll_vars, bk_vars, sup_vars, ord_vars, file_vars>>

NextDepth == DepthCall
SpecDepth == InitVal /\ [][NextDepth]_vars

\* _backoff_delay alone, over a long run of failed attempts.
NextBackoff == BackoffCall
SpecBackoff == InitVal /\ [][NextBackoff]_vars

\* The manager of Spec under the scheduling asyncio gives its task: a step
\* that is possible (connect returns or raises, wait_for returns or times
\* out, a sleep or a callback ends) is eventually taken.
SpecLive == Init /\ [][Next]_vars /\ WF_vars(Next)

----------------------------------------------------------------------------
(* Properties. *)

Range(s) == {s[i] : i \in DOMAIN s}

\* Records in the per-type buffers, held by a write that has not succeeded
\* (running, or failed and not yet put back), and in the files written.
BufferedIds == UNION {Range(buffers[t]) : t \in StoreTypeSet}
HeldCallers == {c \in Callers : inflight[c].status \in {"running", "failed"}}
HeldIds == UNION {Range(inflight[c].recs) : c \in HeldCallers}
WrittenIds == UNION {Range(written[i].recs) : i \in DOMAIN written}
RecordSlots ==
    UNION {{<<"buffer", t, i>> : i \in DOMAIN buffers[t]} : t \in StoreTypeSet}
    \cup UNION {{<<"write", c, i>> : i \in DOMAIN inflight[c].recs} : c \in HeldCallers}
    \cup UNION {{<<"file", k, i>> : i \in DOMAIN written[k].recs} : k \in DOMAIN written}

\* Records store_<type> has appended: every event dispatched on a stored
\* channel, but the one whose dispatch has not reached the store's sink yet.
AppendedIds ==
    {i \in 1..(next_id - 1) :
        ~(mgr_pc = "dispatch" /\ event.id = i /\ "store" \notin Range(invoked))}

Conservation ==
    /\ Cardinality(RecordSlots) = Cardinality(AppendedIds)
    /\ BufferedIds \cup HeldIds \cup WrittenIds = AppendedIds

\* A caller resuming from a failed write leaves its records at the head of
\* the type's buffer, in their order.
RequeueStep ==
    \A c \in Callers :
        (inflight[c].status = "failed" /\ inflight'[c].status = "idle") =>
            LET w == inflight[c] IN
            /\ Len(buffers'[w.type]) = Len(w.recs) + Len(buffers[w.type])
            /\ SubSeq(buffers'[w.type], 1, Len(w.recs)) = w.recs

\* A flush that starts takes every record of the type's buffer, those put
\* back after a failure included.
SwapStep ==
    \A c \in Callers :
        (inflight[c].status = "idle" /\ inflight'[c].status = "running") =>
            LET t == inflight'[c].type IN
            /\ buffers'[t] = <<>>
            /\ Range(buffers[t]) \subseteq Range(inflight'[c].recs)

\* C1: no record is lost. In every state the records in the buffers, those
\* held by writes in flight and those of the successful writes are exactly
\* the records appended, each once; the records of a failed write are put
\* back into the buffer of their type, and the next flush of that type takes
\* them with everything else in the buffer.
C1_NoRecordLost == [](Conservation) /\ [][RequeueStep /\ SwapStep]_vars

\* Every record was appended, a write failed on the way, and all of them are
\* in successful writes.
C1_Witness ==
    /\ failures >= 1
    /\ next_id = MaxRecords + 1
    /\ WrittenIds = 1..MaxRecords
    /\ BufferedIds = {}

\* C2: while the write started by the store sink's flush during a dispatch is
\* in progress, the manager's read loop is at ws.recv(), able to take the
\* next frame.
C2_ReadLoopNotStalled == inflight["mgr"].status = "running" => mgr_pc = "listening"

MalformedFrames == EnvelopeMalformed \cup PayloadMalformed(MaxNowMs)

\* C3: a malformed frame is dropped: handling it dispatches nothing, leaves
\* the connection open and the reconnect counter unchanged. (A step from
\* "listening" that does not set _ws to None is the receipt of a frame.)
C3_MalformedDropped ==
    [][(mgr_pc = "listening" /\ ws' # "none" /\ frame' \in MalformedFrames) =>
          /\ UNCHANGED cb_vars
          /\ mgr_pc' = "listening"
          /\ ws' = "open"
          /\ reconnect_count' = reconnect_count]_vars

\* C4: a callback that raises stops neither the dispatch it is part of nor
\* the producer: during a dispatch the callbacks before the current position
\* have all been invoked, in order, and when the dispatch ends every
\* registered callback has been invoked; the manager is then back in its read
\* loop with the connection open and the reconnect counter unchanged, and the
\* poller goes to its inter-poll sleep, still running, its session open.
C4_FailureIsolated ==
    /\ [](mgr_pc \in {"dispatch", "await_write"} =>
            /\ cb_idx <= Len(CurrentCallbacks)
            /\ invoked = SubSeq(CurrentCallbacks, 1,
                                IF mgr_pc = "dispatch" THEN cb_idx - 1 ELSE cb_idx))
    /\ [][(mgr_pc \in {"dispatch", "await_write"} /\ mgr_pc' \notin {"dispatch", "await_write"}) =>
            /\ invoked' = CurrentCallbacks
            /\ mgr_pc' = "listening"
            /\ ws' = "open"
            /\ reconnect_count' = reconnect_count]_vars
    /\ [](poll_pc = "dispatch" =>
            /\ poll_idx <= Len(PollCallbacks)
            /\ poll_invoked = SubSeq(PollCallbacks, 1, poll_idx - 1))
    /\ [][(poll_pc = "dispatch" /\ poll_pc' # "dispatch") =>
            /\ poll_invoked' = PollCallbacks
            /\ poll_pc' = "sleep"
            /\ poll_running'
            /\ session' = "open"]_vars
    /\ [](poll_pc = "stopped" => ~poll_running)

\* The console printer raised on a trade and the store's sink was invoked
\* after it, the manager reads on; the printer raised on a polled snapshot
\* and the poller is at its next request.
C4_Witness ==
    /\ cb_failed = {1}
    /\ invoked = <<"print", "store">>
    /\ mgr_pc = "listening"
    /\ ws = "open"
    /\ poll_failed = {1}
    /\ poll_pc = "request"

\* C5: a connect attempt never starts while a connection loss has not been
\* followed by a backoff sleep.
C5_BackoffAfterLoss == mgr_pc = "connecting" => conn_loss = "none"

\* C6 as stated: with a ceiling N > 0, if every connect-and-listen cycle ends
\* (no connection stays open for ever), start() eventually terminates.
C6_Original ==
    max_attempts > 0 => (<>[](ws = "open") \/ <>(mgr_pc = "stopped"))

\* C6, amended: with a ceiling N > 0, if from some point on no connect
\* attempt succeeds, start() eventually terminates.
C6_TerminatesWhenConnectsFail ==
    max_attempts > 0 => ([]<>(ws = "open") \/ <>(mgr_pc = "stopped"))

\* start() has terminated on the ceiling, after N + 1 failed attempts in a row.
C6_Witness ==
    /\ max_attempts > 0
    /\ mgr_pc = "stopped"
    /\ reconnect_count = max_attempts + 1

\* C7: a parse call that rejects an event as stale was preceded by at least
\* 5 timestamped events since the last reset().
C7_NoStaleBeforeCalibration == parsed.res = "stale" => parsed.seen >= 5

\* The 5th timestamped event since reset(), older than the threshold allows,
\* is accepted.
C7_Witness ==
    /\ parsed.res = "ok"
    /\ parsed.seen = 4
    /\ parsed.age > stale_threshold_ms

\* C8: once calibrated, a well-formed timestamped event whose adjusted age
\* exceeds the threshold is rejected and nothing is dispatched; one whose
\* adjusted age does not is dispatched.
C8_StaleIffTooOld ==
    [][(mgr_pc = "listening" /\ calibrated /\ ws' # "none" /\ parsed'.wf) =>
          /\ parsed'.age > stale_threshold_ms =>
                (parsed'.res = "stale" /\ mgr_pc' = "listening" /\ UNCHANGED cb_vars)
          /\ parsed'.age <= stale_threshold_ms =>
                (parsed'.res = "ok" /\ mgr_pc' = "dispatch"
                 /\ event'.ch \in TimestampedChannels /\ invoked' = <<>>)]_vars

\* A calibrated validator rejected an event one millisecond too old.
C8_Witness ==
    /\ calibrated
    /\ parsed.cal
    /\ parsed.res = "stale"
    /\ parsed.age = stale_threshold_ms + 1
    /\ mgr_pc = "listening"

\* m is a median of the sequence s: an element with at least half of the
\* elements on either side of it.
IsMedian(m, s) ==
    /\ m \in Range(s)
    /\ 2 * Cardinality({i \in DOMAIN s : s[i] <= m}) > Len(s)
    /\ 2 * Cardinality({i \in DOMAIN s : s[i] >= m}) > Len(s)

\* s with the elements at positions i and i + 1 exchanged
SwapAdjacent(s, i) == [s EXCEPT ![i] = s[i + 1], ![i + 1] = s[i]]

\* The validator state after the samples of s arrived in order
RECURSIVE CalibrateAll(_, _)
CalibrateAll(st, s) ==
    IF s = <<>> THEN st ELSE CalibrateAll(Calibrate(st, Head(s)), Tail(s))

\* C9: when the 5th sample completes the calibration, the frozen offset is
\* the median of the 5 samples, and the same samples arriving with any two
\* neighbours exchanged (hence in any order) give the same offset.
C9_OffsetIsMedian ==
    [][(~calibrated /\ calibrated') =>
          LET arrival == Append(cal_samples, parsed'.age) IN
          /\ Len(arrival) = 5
          /\ IsMedian(clock_offset'[1], arrival)
          /\ \A i \in 1..(Len(arrival) - 1) :
                CalibrateAll(ResetState, SwapAdjacent(arrival, i)).offset = clock_offset']_vars

\* Calibrated on five samples whose last to arrive is the smallest and whose
\* median is strictly between the smallest and the largest.
C9_Witness ==
    /\ calibrated
    /\ parsed.seen = 4
    /\ parsed.age = cal_samples[1]
    /\ cal_samples[1] < clock_offset[1]
    /\ clock_offset[1] < cal_samples[5]

\* C10: when a connection becomes Connected, the calibration state is empty.
C10_FreshCalibration ==
    [][(mgr_pc = "connecting" /\ mgr_pc' = "listening") =>
          (cal_samples' = <<>> /\ ~calibrated' /\ clock_offset' = <<>>)]_vars

\* Connected with an empty calibration state after an earlier connection on
\* which the validator took samples and calibrated.
C10_Witness ==
    /\ mgr_pc = "listening"
    /\ cal_samples = <<>>
    /\ ~calibrated
    /\ parsed.res = "ok"
    /\ parsed.seen >= 5

\* The delay the description gives for attempt k: min(base * 2^(k-1),
\* max_delay); past 20 doublings the power exceeds every max_delay tried.
SpecifiedDelay(k, max_delay) ==
    IF k > 20 THEN max_delay ELSE Min(reconnect_delay_base * 2 ^ (k - 1), max_delay)

\* C11: for every attempt count k >= 1 and every jitter draw the backoff delay
\* is at least min(base * 2^(k-1), max_delay) and at most max_delay * 1.1, and
\* from one attempt to the next it does not decrease as long as one of the
\* two delays is below max_delay.
C11_BackoffBounds ==
    /\ [](backoff.count >= 1 =>
            /\ ~backoff.raised
            /\ backoff.delay >= SpecifiedDelay(backoff.count, backoff.max_delay)
            /\ 10 * backoff.delay <= 11 * backoff.max_delay)
    /\ [][(backoff.count >= 1 /\ backoff'.count = backoff.count + 1
            /\ (backoff.delay < backoff.max_delay \/ backoff'.delay < backoff'.max_delay))
           => backoff'.delay >= backoff.delay]_vars

BuffersEmpty == \A t \in StoreTypeSet : buffers[t] = <<>>

\* A _flush hands records to the writer
WriteStarts ==
    \E c \in Callers : inflight[c].status # "running" /\ inflight'[c].status = "running"

TeardownComplete ==
    /\ sup_pc = "done"
    /\ \A c \in Callers : inflight[c].status # "running"

\* C13: after a shutdown signal, whatever the suspension points it found the
\* tasks at, once the teardown has completed no appended record has been
\* dropped: each one is in a successful write, or at least (when a write of
\* the final flush failed and re-queued it) still in its buffer.
C13_NoRecordDropped ==
    (shutdown = "cancel" /\ TeardownComplete)
        => AppendedIds \subseteq (WrittenIds \cup BufferedIds)

\* C14: when the manager has terminated on the reconnect ceiling, _run
\* eventually completes its teardown: the poller stopped, the periodic loop
\* stopped, the final flush_all done.
C14_TornDownTogether ==
    (mgr_pc = "stopped" /\ CeilingHit(reconnect_count, max_attempts))
        ~> /\ sup_pc = "done"
           /\ poller_enabled => ~poll_running
           /\ storage_enabled => ~store_running

\* C15: after stop() was called on the manager, whatever it was doing, no
\* connection is live, no connect attempt is started, and start() eventually
\* returns.
C15_StopEndsStart ==
    /\ [](stop_called => ws # "open")
    /\ [][stop_called => ~(mgr_pc # "connecting" /\ mgr_pc' = "connecting")]_vars
    /\ stop_called ~> (mgr_pc = "stopped")

\* stop() was called on a live connection, which it closed, and start() has
\* not noticed yet.
C15_Witness ==
    /\ stop_called
    /\ mgr_pc = "listening"
    /\ ws = "closed"

\* C16: in one dispatch a handler is started only from the for loop, never
\* while the previous handler is still awaited, and it is the next one in
\* registration order; when the dispatch is over the handlers invoked are
\* exactly the registered list, each one once. The same in the poller task.
C16_EachHandlerOnceInOrder ==
    /\ [][invoked' # invoked =>
            \/ mgr_pc = "listening" /\ invoked' = <<>>
            \/ /\ mgr_pc = "dispatch"
               /\ Len(invoked) < Len(CurrentCallbacks)
               /\ invoked' = Append(invoked, CurrentCallbacks[Len(invoked) + 1])]_vars
    /\ []((mgr_pc = "listening" /\ event # NoEvent) =>
            invoked = Callbacks(event.ch, storage_enabled))
    /\ [][poll_invoked' # poll_invoked =>
            \/ poll_pc = "request" /\ poll_invoked' = <<>>
            \/ /\ poll_pc = "dispatch"
               /\ Len(poll_invoked) < Len(PollCallbacks)
               /\ poll_invoked' = Append(poll_invoked, PollCallbacks[Len(poll_invoked) + 1])]_vars
    /\ [](poll_pc = "sleep" => poll_invoked \in {<<>>, PollCallbacks})

\* A trade's dispatch is over: the printer, then the store's sink, whose
\* write the manager awaited, neither one failing.
C16_Witness ==
    /\ mgr_pc = "listening"
    /\ event.ch = "trade"
    /\ invoked = <<"print", "store">>
    /\ cb_failed = {}
    /\ written # <<>>

Handlers == {"print", "store"}
Channels == {"trade", "agg_trade", "kline", "book_ticker", "depth_snapshot", "depth_update"}

\* The frame numbers handler cb of channel ch was invoked with, in the order
\* of the invocations
DeliveredTo(ch, cb) ==
    LET mine(d) == d.ch = ch /\ d.cb = cb
        s == SelectSeq(delivered, mine)
    IN  [i \in DOMAIN s |-> s[i].no]

\* Every handler of the frame numbered n has been invoked with it
AllDelivered(n) ==
    received[n] # "dropped" =>
        \A i \in DOMAIN Callbacks(received[n], storage_enabled) :
            \E k \in DOMAIN delivered :
                delivered[k] = [no |-> n, ch |-> received[n],
                                cb |-> Callbacks(received[n], storage_enabled)[i]]

\* C17: on one connection, the frame numbers a handler of a channel was
\* invoked with are increasing and are numbers of frames received that went
\* to that channel; and a frame is read only when the read loop is at recv(),
\* every handler of the frame before it has been invoked and none of them is
\* still awaited.
C17_WireOrderPerHandler ==
    /\ [](\A ch \in Channels, cb \in Handlers :
            LET s == DeliveredTo(ch, cb)
            IN  /\ \A i, j \in DOMAIN s : i < j => s[i] < s[j]
                /\ \A i \in DOMAIN s : s[i] \in 1..wire /\ received[s[i]] = ch)
    /\ [][wire' > wire =>
            /\ mgr_pc = "listening"
            /\ inflight["mgr"] = NoWrite
            /\ wire > 0 => AllDelivered(wire)]_vars

\* Three frames on one connection: a trade, a dropped frame, a trade; both
\* handlers of trades got the first and the third, in that order.
C17_Witness ==
    /\ received = <<"trade", "dropped", "trade">>
    /\ DeliveredTo("trade", "print") = <<1, 3>>
    /\ DeliveredTo("trade", "store") = <<1, 3>>
    /\ mgr_pc = "listening"

\* The part of a stream name after its first "@" (empty when there is none)
SuffixOf(f) ==
    IF f.stream.str /\ Len(Split1(f.stream.chars)) = 2
    THEN Split1(f.stream.chars)[2] ELSE <<>>

Digits == {"0", "1", "2", "3", "4", "5", "6", "7", "8", "9"}

\* The channel of a suffix of one of the six forms trade, aggTrade,
\* kline_<interval>, bookTicker, depth<levels>@<speed>, depth@<speed>;
\* "none" for any other suffix.
FormChannel(sfx) ==
    IF sfx = S_trade THEN "trade"
    ELSE IF sfx = S_aggTrade THEN "agg_trade"
    ELSE IF StartsWith(sfx, S_kline_) /\ Len(sfx) > Len(S_kline_) THEN "kline"
    ELSE IF sfx = S_bookTicker THEN "book_ticker"
    ELSE IF StartsWith(sfx, S_depth)
    THEN LET parts == Split1(SubSeq(sfx, Len(S_depth) + 1, Len(sfx))) IN
         IF Len(parts) # 2 \/ parts[2] = <<>> THEN "none"
         ELSE IF parts[1] = <<>> THEN "depth_update"
         ELSE IF \A i \in DOMAIN parts[1] : parts[1][i] \in Digits THEN "depth_snapshot"
         ELSE "none"
    ELSE "none"

\* C18: the receipt of an envelope starts at most one dispatch, and only on
\* the channel of its suffix's form, with the handlers of that channel, each
\* not yet invoked; an envelope whose suffix has none of the six forms, or
\* whose payload is rejected, starts none and invokes no handler.
C18_RoutedBySuffix ==
    /\ [][(mgr_pc = "listening" /\ ws' # "none") =>
            IF mgr_pc' = "dispatch"
            THEN /\ FormChannel(SuffixOf(frame')) # "none"
                 /\ event'.ch = FormChannel(SuffixOf(frame'))
                 /\ frame'.payload.ok
                 /\ cb_idx' = 1
                 /\ invoked' = <<>>
            ELSE UNCHANGED cb_vars]_vars
    /\ [](mgr_pc = "dispatch" =>
            /\ event.ch = FormChannel(SuffixOf(frame))
            /\ CurrentCallbacks = Callbacks(FormChannel(SuffixOf(frame)), storage_enabled))

\* The places record i has in the successful writes
WriteSlots(i) ==
    {p \in UNION {{<<k, j>> : j \in DOMAIN written[k].recs} : k \in DOMAIN written} :
        written[p[1]].recs[p[2]] = i}

\* C19: no record is double-flushed: whatever the interleaving of appends,
\* of flushes started by an append, by the periodic loop and by flush_all,
\* and of failed writes re-queued, a record is in at most one place of at
\* most one successful write.
C19_NoDoubleFlush == \A i \in WrittenIds : Cardinality(WriteSlots(i)) = 1

\* A write failed and was re-queued, flush_all and close() have run, and
\* the records appended are all written, in two writes or more.
C19_Witness ==
    /\ sup_pc = "done"
    /\ failures >= 1
    /\ Len(written) >= 2
    /\ WrittenIds = AppendedIds
    /\ next_id > 2

\* The buffer of type t when caller c reaches the swap of a flush: the
\* manager has just appended its event, the others have just put back the
\* records of the write they resumed from, if it failed.
BufferAtSwap(c, t) ==
    IF c = "mgr" THEN Append(buffers[t], event.id)
    ELSE AfterWrite(buffers, inflight[c])[t]

\* C20: a flush hands to its write exactly the records in the type's buffer
\* at the swap; the batch does not change while the write is in flight and
\* is what the write writes; a record appended while a write is in flight
\* goes into the buffer and into no write in flight of another caller.
C20_SwapIsTheCut ==
    /\ [][\A c \in Callers :
            /\ (inflight[c].status # "running" /\ inflight'[c].status = "running") =>
                  /\ inflight'[c].recs = BufferAtSwap(c, inflight'[c].type)
                  /\ buffers'[inflight'[c].type] = <<>>
            /\ (inflight[c].status = "running" /\ inflight'[c].status # "running") =>
                  /\ inflight'[c].recs = inflight[c].recs
                  /\ inflight'[c].status = "done" =>
                        written' = Append(written, [type |-> inflight[c].type,
                                                    recs |-> inflight[c].recs])
            /\ (inflight[c].status = "running" /\ inflight'[c].status = "running") =>
                  inflight'[c] = inflight[c]]_vars
    /\ [][(mgr_pc = "dispatch" /\ Len(invoked') > Len(invoked) /\ invoked'[Len(invoked')] = "store") =>
            /\ event.id \in Range(buffers'[event.ch]) \cup Range(inflight'["mgr"].recs)
            /\ \A c \in Callers \ {"mgr"} : event.id \notin Range(inflight'[c].recs)
            /\ \A c \in Callers \ {"mgr"} : inflight'[c] = inflight[c]]_vars

\* The periodic flush of a type is in flight and a record of that type,
\* appended since the swap, is in the buffer.
C20_Witness ==
    /\ inflight["periodic"].status = "running"
    /\ inflight["periodic"].recs # <<>>
    /\ buffers[inflight["periodic"].type] # <<>>

\* The manager's store sink appends the event being dispatched
AppendStep ==
    /\ mgr_pc = "dispatch"
    /\ Len(invoked') > Len(invoked)
    /\ invoked'[Len(invoked')] = "store"

\* C21: the append of a record starts a flush of its type exactly when the
\* buffer, the record included, has reached buffer_max records or the time
\* since the type's last flush has reached the rotation interval; and every
\* flush that starts, whoever starts it, sets the type's last-flush time to
\* the present in the step that hands the records over.
C21_FlushTrigger ==
    /\ [][AppendStep =>
            ((inflight'["mgr"].status = "running")
                <=> \/ Len(buffers[event.ch]) + 1 >= buffer_max
                    \/ mono - last_flush[event.ch] >= flush_interval)]_vars
    /\ [][\A c \in Callers :
            (inflight[c].status # "running" /\ inflight'[c].status = "running") =>
                /\ last_flush'[inflight'[c].type] = mono
                /\ \A t \in StoreTypeSet \ {inflight'[c].type} :
                        last_flush'[t] = last_flush[t]]_vars

\* An append started a flush on the time trigger, the buffer being below
\* buffer_max.
C21_Witness ==
    /\ inflight["mgr"].status = "running"
    /\ Len(inflight["mgr"].recs) < buffer_max
    /\ last_flush[inflight["mgr"].type] = mono
    /\ mono >= flush_interval

\* The rotation interval has elapsed for type t
IntervalReached(t) == mono - last_flush[t] >= flush_interval

\* The periodic loop starts a flush
PeriodicSwapStep ==
    /\ inflight'["periodic"].status = "running"
    /\ inflight["periodic"].status # "running"

\* The periodic loop takes a step: it leaves its sleep for a flush, or it
\* resumes from a write that has ended
PeriodicStep ==
    \/ flush_pc = "sleep" /\ flush_pc' # "sleep"
    \/ /\ inflight["periodic"].status \in {"done", "failed"}
       /\ inflight'["periodic"] # inflight["periodic"]

\* C22: a buffer that is not empty and whose rotation interval has elapsed
\* is flushed, however few records it holds and without any further event;
\* the periodic check flushes a type only when its interval has elapsed and
\* its buffer is not empty, and touches no buffer else (but to put back the
\* records of its own failed write).
C22_PeriodicFlushWhenDue ==
    /\ \A t \in StoreTypeSet :
            (buffers[t] # <<>> /\ IntervalReached(t)) ~> ~IntervalReached(t)
    /\ [][PeriodicSwapStep =>
            /\ IntervalReached(inflight'["periodic"].type)
            /\ inflight'["periodic"].recs # <<>>]_vars
    /\ [][PeriodicStep =>
            \A t \in StoreTypeSet :
                (PeriodicSwapStep /\ inflight'["periodic"].type = t)
                \/ /\ buffers'[t] = AfterWrite(buffers, inflight["periodic"])[t]
                   /\ last_flush'[t] = last_flush[t]]_vars

\* The periodic check is writing a buffer shorter than buffer_max.
C22_Witness ==
    /\ inflight["periodic"].status = "running"
    /\ Len(inflight["periodic"].recs) < buffer_max
    /\ flush_pc = "await_write"

\* The records in the files under base_dir
FileIds == UNION {Range(f.recs) : f \in files}

\* C23: each successful flush has its own file: there are as many files as
\* successful writes, and every record of a successful write is in a file.
C23_OneFilePerFlush ==
    /\ Cardinality(files) = Len(written)
    /\ WrittenIds \subseteq FileIds

PollFailures == {"http_error", "network_error", "decode_error"}

\* C24: a poll that fails dispatches nothing and leaves the loop running,
\* which goes to its sleep and from there to the next request; the loop is
\* left only after stop() or by a cancellation, and a cancellation ends it
\* at once, with no further request.
C24_PollFailureIsolated ==
    /\ [][(poll_pc = "request" /\ poll_last' \in PollFailures /\ poll_pc' # "request") =>
            /\ poll_pc' = "sleep"
            /\ UNCHANGED <<poll_invoked, poll_running, session>>]_vars
    /\ [][(poll_pc = "sleep" /\ poll_pc' # "sleep") =>
            \/ poll_running /\ poll_pc' = "request"
            \/ ~poll_running /\ poll_pc' = "stopped"
            \/ poll_last' = "cancelled" /\ poll_pc' = "stopped"]_vars
    /\ [](poll_pc = "stopped" => (~poll_running \/ poll_last = "cancelled"))
    /\ [](poll_last = "cancelled" => poll_pc \in {"stopped", "cancelled"})

\* A poll failed, the loop slept and the next request is under way.
C24_Witness ==
    /\ poll_last \in PollFailures
    /\ poll_pc = "request"
    /\ poll_running

\* stop() has been called on the poller after its start()
PollStopCalled == poll_pc # "init" /\ ~poll_running

\* C26: after stop() on the poller the session is no longer open, no
\* handler is invoked with a snapshot any more, and the loop eventually
\* exits.
C26_PollStopEnds ==
    /\ [](PollStopCalled => session # "open")
    /\ [][PollStopCalled => poll_invoked' = poll_invoked]_vars
    /\ PollStopCalled ~> (poll_pc = "stopped")

\* C25: at poller startup the rate-budget warning is logged if and only if
\* (60 / interval_seconds) * weight_for(limit) exceeds the budget ceiling of
\* 1200 per minute, and polling starts whether or not it is logged.
C25_WarnIffOverBudget ==
    (rate # NoRate /\ rate.interval > 0) =>
        /\ rate.warned <=>
              (SecondsPerMinute * LimitWeight(rate.limit) > BudgetCeiling * rate.interval)
        /\ rate.started

\* C27: every aggregated-trade event that passes the validator and is
\* dispatched has trade count last id - first id + 1 >= 1, whatever the
\* payload, also when its last trade id is smaller than its first.
C27_TradeCountPositive ==
    (agg.called /\ agg.accepted) =>
        /\ agg.num_trades = agg.last - agg.first + 1
        /\ agg.num_trades >= 1

\* the parsed ladder has the wire ladder's levels, one for one and in place
LadderKept(wire_ladder, ladder) ==
    /\ Len(ladder) = Len(wire_ladder)
    /\ \A i \in 1..Len(wire_ladder) :
          /\ ladder[i][1] = FloatOf(wire_ladder[i][1])[1]
          /\ ladder[i][2] = FloatOf(wire_ladder[i][2])[1]
          /\ wire_ladder[i][2] = Qty_zero => ladder[i][2] = 0

\* C28: parsing a depth delta preserves each ladder: the parsed bid and
\* ask ladders have the length and the order of the wire ladders, and a
\* level of quantity 0 is kept as (price, 0), not filtered out.
C28_LaddersPreserved ==
    (depth.called /\ depth.ok) =>
        /\ LadderKept(depth.b, depth.bids)
        /\ LadderKept(depth.a, depth.asks)

\* both ladders have two levels, and a level to remove stands first in one
\* and second in the other
C28_Witness ==
    /\ depth.called /\ depth.ok
    /\ depth.b = <<(<<Price_10, Qty_zero>>), (<<Price_9_5, Qty_1_25>>)>>
    /\ depth.a = <<(<<Price_9_5, Qty_1_25>>), (<<Price_10, Qty_zero>>)>>
    /\ Len(depth.bids) = 2 /\ Len(depth.asks) = 2
    /\ depth.bids[1] = <<10 * Pow10(MaxDecimals), 0>>
    /\ depth.asks[2] = <<10 * Pow10(MaxDecimals), 0>>
    /\ depth.bids[2][1] < depth.bids[1][1]
    /\ depth.asks[1][2] > 0

\* the seven event types the dispatcher delivers
EventTypes == Channels \cup {"order_book_snapshot"}

\* C29: for each of the seven event types the store has a buffer and an
\* append operation, so that every validated event delivered while storage
\* is enabled is appended to its type's buffer: when its dispatch is over,
\* the store's sink has been invoked for it.
C29_EveryTypeStored ==
    storage_enabled =>
        /\ (mgr_pc = "listening" /\ event # NoEvent) =>
               /\ event.ch \in EventTypes
               /\ event.ch \in DOMAIN buffers
               /\ \E i \in 1..Len(invoked) : invoked[i] = "store"
        /\ (poll_pc = "sleep" /\ poll_last = "ok") =>
               /\ "order_book_snapshot" \in DOMAIN buffers
               /\ \E i \in 1..Len(poll_invoked) : poll_invoked[i] = "store"

\* s is an initial segment of q
IsPrefix(s, q) == Len(s) <= Len(q) /\ SubSeq(q, 1, Len(s)) = s

\* C30: when a flush's write has failed, the buffer after the caller resumed
\* is the swapped-out records, in their order, followed by the records
\* appended since the swap, in their order; and the next flush of a type
\* hands to its write the whole buffer from its head on, the re-queued
\* records first, which a successful write writes.
C30_RequeuedAtHead ==
    [][\A c \in Callers :
         /\ (inflight[c].status = "failed" /\ inflight'[c] # inflight[c]) =>
               buffers'[inflight[c].type] = inflight[c].recs \o buffers[inflight[c].type]
         /\ (inflight[c].status # "running" /\ inflight'[c].status = "running") =>
               IsPrefix(IF inflight[c].status = "failed" /\ inflight[c].type = inflight'[c].type
                        THEN inflight[c].recs \o buffers[inflight[c].type]
                        ELSE buffers[inflight'[c].type],
                        inflight'[c].recs)
         /\ (inflight[c].status = "running" /\ inflight'[c].status = "done") =>
               /\ Len(written') = Len(written) + 1
               /\ written'[Len(written')].recs = inflight[c].recs]_vars

\* The write of the periodic flush has failed and its task has not resumed;
\* a record of the type, appended since the swap, is in the buffer.
C30_Witness ==
    /\ inflight["periodic"].status = "failed"
    /\ inflight["periodic"].recs # <<>>
    /\ buffers[inflight["periodic"].type] # <<>>

\* a connect-and-listen cycle ends in a failure: connect() raised, or the
\* established connection timed out or was closed
CycleFailed ==
    \/ mgr_pc = "connecting" /\ mgr_pc' \in {"backoff", "stopped"}
    \/ mgr_pc = "listening" /\ ws = "open" /\ ws' = "none" /\ mgr_pc' = "loop"

\* C31: the reconnect-attempt counter is 0 whenever the manager is
\* Connected/Listening, and it is incremented by exactly one at the end of
\* every connect-and-listen cycle that ended in a failure (failed connect,
\* read timeout or closure) while the manager is still running.
C31_CounterCountsFailures ==
    /\ [](ws = "open" => reconnect_count = 0)
    /\ [][(mgr_running /\ CycleFailed) => reconnect_count' = reconnect_count + 1]_vars

\* start() has ended: its loop was left, or an exception left it
StartEnded == mgr_pc \in {"stopped", "raised"}

\* C32: with a reconnect ceiling N > 0 the manager terminates exactly when
\* the failed cycles in a row since the last successful connect reach N + 1,
\* every one before it having been followed by a backoff sleep; with
\* ceiling 0 no number of failures terminates start(), only stop() does
\* (cancellation is not part of this specification).
C32_TerminatesAtCeilingOnly ==
    /\ [][(mgr_running /\ reconnect_count' = reconnect_count + 1) =>
             IF max_attempts > 0 /\ reconnect_count' = max_attempts + 1
             THEN mgr_pc' = "stopped"
             ELSE mgr_pc' = "backoff"]_vars
    /\ []((max_attempts > 0 /\ StartEnded /\ ~stop_called) =>
             (mgr_pc = "stopped" /\ reconnect_count = max_attempts + 1))
    /\ []((max_attempts = 0 /\ StartEnded) => stop_called)

\* C33: in every reachable state the validator holds at most 5 calibration
\* samples and is calibrated if and only if it holds exactly 5 samples and an
\* offset; once calibrated, no parse operation changes the samples or the
\* offset, and the calibration ends only by reset(), which empties both.
C33_CalibrationFrozen ==
    /\ [](Len(cal_samples) <= CalibrationSize)
    /\ [](calibrated <=> (Len(cal_samples) = CalibrationSize /\ clock_offset # <<>>))
    /\ [][calibrated =>
            \/ calibrated' /\ cal_samples' = cal_samples /\ clock_offset' = clock_offset
            \/ ~calibrated' /\ cal_samples' = <<>> /\ clock_offset' = <<>> /\ parsed' = parsed]_vars

\* A calibrated validator has judged an event, fresh or stale, whose age
\* differs from every sample it holds.
C33_Witness ==
    /\ calibrated
    /\ parsed.cal
    /\ parsed.res \in {"ok", "stale"}
    /\ \A i \in 1..Len(cal_samples) : cal_samples[i] # parsed.age + clock_offset[1]

\* the manager's task is suspended inside start(): connecting, awaiting a
\* frame, awaiting a handler's write, or in the backoff sleep
InsideStart == mgr_pc \in {"connecting", "listening", "await_write", "backoff"}

\* C34: when start() is cancelled at any of its suspension points, it
\* unwinds with no connection left open and the manager ends Idle, its
\* running flag false.
C34_CancelUnwindsClean ==
    [][(InsideStart /\ shutdown = "none" /\ shutdown' = "cancel") =>
          /\ mgr_pc' \in {"stopped", "cancelled"}
          /\ ws' # "open"
          /\ ~mgr_running']_vars

\* C35: while the validator is uncalibrated every timestamped message with
\* a numeric event time adds exactly one calibration sample, whether or not
\* it then passes field-level parsing, and no other message adds any; the
\* calibration is therefore complete at the 5th such message since reset(),
\* and that message is not rejected as stale.
C35_EverySampleCounts ==
    /\ [](~calibrated => Len(cal_samples) = seen)
    /\ [](calibrated => seen >= CalibrationSize)
    /\ [][~calibrated =>
            /\ seen' = seen + 1 =>
                  /\ Len(cal_samples') = Len(cal_samples) + 1
                  /\ parsed'.res \in {"ok", "parse_error"}
                  /\ calibrated' <=> seen' = CalibrationSize
            /\ seen' = seen => (cal_samples' = cal_samples /\ ~calibrated')]_vars

\* The 5th timestamped message since reset() failed field-level parsing and
\* completed the calibration all the same.
C35_Witness ==
    /\ calibrated
    /\ seen = CalibrationSize
    /\ parsed.seen = CalibrationSize - 1
    /\ parsed.res = "parse_error"
    /\ ~parsed.wf

\* caller c resumes from a failed write of type t and puts its records back
RequeueOf(c, t) ==
    /\ inflight[c].status = "failed"
    /\ inflight[c].type = t
    /\ inflight'[c] # inflight[c]

\* C36: as long as no write has failed, each per-type buffer holds fewer
\* than buffer_max records whenever the tasks are suspended, under every
\* interleaving of appends with append-triggered and periodic flushes; a
\* buffer reaches or exceeds buffer_max only by a re-queue after a failed
\* write.
C36_BufferBelowMax ==
    /\ [](failures = 0 => \A t \in StoreTypeSet : Len(buffers[t]) < buffer_max)
    /\ [][\A t \in StoreTypeSet :
            (Len(buffers[t]) < buffer_max /\ Len(buffers'[t]) >= buffer_max) =>
                \E c \in Callers : RequeueOf(c, t)]_vars

\* No write has failed; the buffer of one type reached buffer_max and its
\* write is in flight, while the buffer of another type holds a record.
C36_Witness ==
    /\ failures = 0
    /\ inflight["mgr"].status = "running"
    /\ Len(inflight["mgr"].recs) = buffer_max
    /\ \E t \in StoreTypeSet : buffers[t] # <<>>

\* C37: at most one write per event type is in flight at any time: no two
\* callers are in a write of the same type that has not completed.
C37_OneWritePerType ==
    \A c1 \in Callers, c2 \in Callers :
        (c1 # c2 /\ inflight[c1].status = "running" /\ inflight[c2].status = "running") =>
            inflight[c1].type # inflight[c2].type

====
